---- MODULE Spec2Model ----
(***************************************************************************)
(* Model of react-pdf-highlight: the area-selection state machine of       *)
(* MouseSelection.tsx as wired by Highlighter.tsx, the per-page            *)
(* grouping of highlights (groupHighlightsByPage, Highlighter.tsx), the    *)
(* coordinate helpers of Context.tsx, and the selection handlers and       *)
(* state cells of the Highlighter (Highlighter.tsx).                       *)
(*                                                                         *)
(* Lengths are integers counted in 1/SubPx of a CSS pixel, so that a       *)
(* fractional (sub-pixel) distance is representable.                       *)
(***************************************************************************)
EXTENDS Integers, Sequences, FiniteSets, TLC

VARIABLES
    pdfViewer,      \* TRUE once PdfViewer.initialize has set the viewer (else null)
    locked,         \* MouseSelection: useState(false)
    startCoords,    \* MouseSelection: useState<Coords | null>(null)
    endCoords,      \* MouseSelection: useState<Coords | null>(null)
    startRef,       \* MouseSelection: useRef(startCoords), synced by effect
    lockedRef,      \* MouseSelection: useRef(locked), synced by effect
    disabledSelection, \* "disabled-selection" class present on pdfViewer.viewer
    upHandlers,     \* body "mouseup" listeners; each closure holds its startTarget
    emitted,        \* onSelection(startTarget, boundingRect) calls made by the last event
    ev,             \* the last DOM event delivered, with the state it met
    mouseSelectionInProgress, \* Highlighter: useState(false), set by MouseSelection's onChange
    highlights,     \* Highlighter: props.highlights
    ghostHighlight, \* Highlighter: useState<IHighlight>() ghostHighlight
    grouped,        \* Highlighter: useMemo(groupHighlightsByPage(...))
    groupedKeys,    \* the own keys of grouped, in the order an enumeration meets them
    scale,          \* pdfViewer.currentScale: the zoom the page viewports are built with
    selectionIsCollapsed, \* Highlighter: useState(true) selectionIsCollapsed
    viewportPosition, \* Highlighter: useState<Position>() viewportPosition
    currentHighlight, \* Highlighter: useState<IHighlight>() highlight
    coords,         \* a position taken through the coordinate helpers of Context.tsx
    positioner,     \* the mounted Positioner: its props, state cells and style (else null)
    timers,         \* the pending debounce and hover timers of the Highlighter
    listeners,      \* the event listeners the components hold registered
    pageViews,      \* the page views the viewer has laid out, and the last operation on them
    scrollId,       \* Highlighter: useState(EMPTY_SCROLL_ID) scrollId
    loader          \* PdfDocumentLoader: its props, state cells, loads in flight and output

mouseVars == <<pdfViewer, locked, startCoords, endCoords, startRef, lockedRef,
               disabledSelection, upHandlers, emitted, ev, mouseSelectionInProgress>>
groupVars == <<highlights, ghostHighlight, grouped, groupedKeys>>
highlighterVars == <<scale, selectionIsCollapsed, viewportPosition, currentHighlight>>
coordVars == <<coords>>
auxVars == <<positioner, timers, listeners, pageViews, scrollId, loader>>
vars == <<pdfViewer, locked, startCoords, endCoords, startRef, lockedRef,
          disabledSelection, upHandlers, emitted, ev, mouseSelectionInProgress,
          highlights, ghostHighlight, grouped, groupedKeys,
          scale, selectionIsCollapsed, viewportPosition, currentHighlight, coords,
          positioner, timers, listeners, pageViews, scrollId, loader>>

----------------------------------------------------------------------------
\* Bounds of the model

\* sub-pixel resolution: one CSS pixel is SubPx length units
SubPx == 2
\* largest number of body mouseup listeners kept pending at once
MaxPending == 2
\* pages of the document
MaxPage == 3
\* rects per highlight position
MaxRects == 2
\* entries of props.highlights
MaxHighlights == 2
\* zoom factors of the viewer
MaxScale == 2
\* selectionchange events counted in one burst
MaxBurst == 3
\* loads the document loader starts, the first included
MaxLoads == 3

----------------------------------------------------------------------------
\* Values

\* JavaScript null / undefined
Null == [null |-> TRUE]

\* an absent (undefined) optional pageNumber; falsy like 0
NoPage == 0

\* n CSS pixels in length units
Px(n) == n * SubPx

Min(a, b) == IF a <= b THEN a ELSE b
Abs(a) == IF a < 0 THEN 0 - a ELSE a

\* container-relative points used by the pointer events
Points ==
    { [x |-> Px(50), y |-> Px(50)],
      [x |-> Px(10), y |-> Px(10)],
      [x |-> Px(10) + 1, y |-> Px(11)],
      [x |-> Px(11), y |-> Px(11)],
      [x |-> Px(50), y |-> Px(10)] }

\* container.getBoundingClientRect(), container.scrollLeft/scrollTop, window.scrollY
ContainerLayout ==
    [left |-> Px(3), top |-> Px(7), scrollLeft |-> Px(2), scrollTop |-> Px(20),
     scrollY |-> Px(5)]

\* event.pageX / event.pageY of the pointer events
PagePoints ==
    { [pageX |-> p.x + ContainerLayout.left - ContainerLayout.scrollLeft,
       pageY |-> p.y + ContainerLayout.top - ContainerLayout.scrollTop
                     + ContainerLayout.scrollY] : p \in Points }

\* event.target: name |-> what the DOM tells about it
\*   html: target instanceof Element && isHTMLElement(target)
\*   inContainer: container.contains(target)
\*   page: number of the closest(".page") ancestor, NoPage when there is none
\*   popup: target.closest("#PdfHighlighter-positioner") finds the popup
TargetInfo ==
    [ pageElem1 |-> [html |-> TRUE,  inContainer |-> TRUE,  page |-> 1, popup |-> FALSE],
      pageElem2 |-> [html |-> TRUE,  inContainer |-> TRUE,  page |-> 2, popup |-> FALSE],
      container |-> [html |-> TRUE,  inContainer |-> TRUE,  page |-> NoPage, popup |-> FALSE],
      svgInPage |-> [html |-> FALSE, inContainer |-> TRUE,  page |-> 1, popup |-> FALSE],
      sidebar   |-> [html |-> TRUE,  inContainer |-> FALSE, page |-> NoPage, popup |-> FALSE],
      popupBody |-> [html |-> TRUE,  inContainer |-> TRUE,  page |-> NoPage, popup |-> TRUE] ]

\* the elements that are there whether or not the popup is rendered
Targets == { t \in DOMAIN TargetInfo : ~TargetInfo[t].popup }

\* the page elements exist only once the viewer has laid the document out
TargetsPresent(viewer) ==
    IF viewer THEN Targets ELSE { t \in Targets : TargetInfo[t].page = NoPage }

\* the elements a press can land on: the popup is rendered only while a
\* highlight is current (Highlighter.tsx lines 322-324)
PressTargets(viewer, highlight) ==
    TargetsPresent(viewer) \cup
        (IF highlight = Null THEN {} ELSE { t \in DOMAIN TargetInfo : TargetInfo[t].popup })

----------------------------------------------------------------------------
\* MouseSelection.tsx

\* getBoundingRect without the corner normalisation: the anchor taken as top-left
getBoundingRectFromAnchor(start, end) ==
    [ left   |-> start.x,
      top    |-> start.y,
      width  |-> Abs(end.x - start.x),
      height |-> Abs(end.y - start.y) ]

getBoundingRect(start, end) ==
    [ left   |-> Min(end.x, start.x),
      top    |-> Min(end.y, start.y),
      width  |-> Abs(end.x - start.x),
      height |-> Abs(end.y - start.y) ]

\* shouldRender accepting any rectangle that is not empty
shouldRenderNonEmpty(boundingRect) ==
    boundingRect.width > 0 /\ boundingRect.height > 0

shouldRender(boundingRect) ==
    boundingRect.width >= Px(1) /\ boundingRect.height >= Px(1)

containerCoords(pageX, pageY) ==
    [ x |-> pageX - ContainerLayout.left + ContainerLayout.scrollLeft,
      y |-> pageY - ContainerLayout.top + ContainerLayout.scrollTop
                  - ContainerLayout.scrollY ]

\* the component's mutable cells, threaded through the handlers; .rendered
\* holds startCoords and endCoords as the last render had them (the values
\* React compares the dependencies of the onChange effect with)
MouseState ==
    [ pdfViewer |-> pdfViewer, locked |-> locked, startCoords |-> startCoords,
      endCoords |-> endCoords, startRef |-> startRef, lockedRef |-> lockedRef,
      disabledSelection |-> disabledSelection, emitted |-> emitted,
      rendered |-> [startCoords |-> startCoords, endCoords |-> endCoords],
      mouseSelectionInProgress |-> mouseSelectionInProgress ]

toggleTextSelection(st, flag) ==
    IF ~st.pdfViewer THEN st ELSE [st EXCEPT !.disabledSelection = flag]

\* onDragStart that leaves the marker alone
onDragStartNoToggle(st) == st

onDragEnd(st) == toggleTextSelection(st, FALSE)
onDragStart(st) == toggleTextSelection(st, TRUE)

\* reset that does not call onDragEnd
resetKeepsMarker(st) ==
    [st EXCEPT !.startCoords = Null, !.endCoords = Null, !.locked = FALSE]

reset(st) ==
    [onDragEnd(st) EXCEPT !.startCoords = Null, !.endCoords = Null, !.locked = FALSE]

\* the onChange effect that reports a rectangle as soon as an anchor is set
onChangeEffectAnchorOnly(st) ==
    IF st.rendered = [startCoords |-> st.startCoords, endCoords |-> st.endCoords]
    THEN st
    ELSE [st EXCEPT !.mouseSelectionInProgress = st.startCoords # Null]

\* lines 72-75: the effect runs after a render that changed startCoords or
\* endCoords; onChange is the Highlighter's setMouseSelectionInProgress
onChangeEffect(st) ==
    IF st.rendered = [startCoords |-> st.startCoords, endCoords |-> st.endCoords]
    THEN st
    ELSE [st EXCEPT !.mouseSelectionInProgress =
                        st.startCoords # Null /\ st.endCoords # Null]

\* a render commits the state and runs the effects: the two that sync the
\* refs and the one that reports the visibility
render(st) ==
    [onChangeEffect(st) EXCEPT
        !.startRef = st.startCoords, !.lockedRef = st.locked,
        !.rendered = [startCoords |-> st.startCoords, endCoords |-> st.endCoords]]

\* onEnableAreaSelection without the closest(".page") check
onEnableAnyElement(enabled, target) ==
    /\ enabled
    /\ TargetInfo[target].html

\* Highlighter.onEnableAreaSelection, the onEnabled prop of MouseSelection
onEnableAreaSelection(enabled, target) ==
    /\ enabled
    /\ TargetInfo[target].html
    /\ TargetInfo[target].page # NoPage

\* the area-selection machine's state (spec 4.5), read off the state cells
PhaseOf(start, lock) ==
    IF start = Null THEN "Idle" ELSE IF lock THEN "Locked" ELSE "Dragging"

Phase == PhaseOf(startCoords, locked)

\* the rectangle on display (computeStyle), Null when display is "none"
computeStyle ==
    IF startCoords = Null \/ endCoords = Null THEN Null
    ELSE getBoundingRect(startCoords, endCoords)

\* mouseDownHandler that does not reset before it evaluates the event
mouseDownHandlerNoReset(st, target, enabled, pageX, pageY) ==
    IF ~onEnableAreaSelection(enabled, target)
    THEN [state |-> st, accepted |-> FALSE]
    ELSE IF ~TargetInfo[target].html
    THEN [state |-> st, accepted |-> FALSE]
    ELSE [state |-> [onDragStart(st) EXCEPT
                        !.startCoords = containerCoords(pageX, pageY),
                        !.endCoords = Null,
                        !.locked = FALSE],
          accepted |-> TRUE]

\* mouseDownHandler up to the registration of its mouseUpHandler;
\* .accepted tells whether the handler went on to start a drag
mouseDownHandler(st, target, enabled, pageX, pageY) ==
    LET cleared == reset(st) IN
    IF ~onEnableAreaSelection(enabled, target)
    THEN [state |-> cleared, accepted |-> FALSE]
    ELSE IF ~TargetInfo[target].html
    THEN [state |-> cleared, accepted |-> FALSE]
    ELSE [state |-> [onDragStart(cleared) EXCEPT
                        !.startCoords = containerCoords(pageX, pageY),
                        !.endCoords = Null,
                        !.locked = FALSE],
          accepted |-> TRUE]

\* mouseMoveHandler that does not consult lockedRef
mouseMoveHandlerIgnoresLock(st, pageX, pageY) ==
    IF st.startRef = Null THEN st
    ELSE [st EXCEPT !.endCoords = containerCoords(pageX, pageY)]

mouseMoveHandler(st, pageX, pageY) ==
    IF st.startRef = Null \/ st.lockedRef THEN st
    ELSE [st EXCEPT !.endCoords = containerCoords(pageX, pageY)]

\* mouseUpHandler that finalizes a drag of any size
mouseUpHandlerAnySize(st, startTarget, target, pageX, pageY) ==
    LET currentStart == st.startRef IN
    IF currentStart = Null THEN st
    ELSE
      LET end == containerCoords(pageX, pageY)
          boundingRect == getBoundingRect(currentStart, end)
      IN  IF \/ ~TargetInfo[target].html
             \/ ~TargetInfo[target].inContainer
          THEN reset(st)
          ELSE onDragEnd([st EXCEPT
                   !.endCoords = end,
                   !.locked = TRUE,
                   !.emitted = Append(@, [startTarget |-> startTarget,
                                          boundingRect |-> boundingRect])])

\* one body mouseup listener, the closure registered with startTarget; the
\* listener has removed itself when it returns (line 120). The event is a
\* MouseEvent, as every mouseup the browser dispatches is (line 125).
mouseUpHandler(st, startTarget, target, pageX, pageY) ==
    LET currentStart == st.startRef IN
    IF currentStart = Null THEN st
    ELSE
      LET end == containerCoords(pageX, pageY)
          boundingRect == getBoundingRect(currentStart, end)
      IN  IF \/ ~TargetInfo[target].html
             \/ ~TargetInfo[target].inContainer
             \/ ~shouldRender(boundingRect)
          THEN reset(st)
          ELSE onDragEnd([st EXCEPT
                   !.endCoords = end,
                   !.locked = TRUE,
                   !.emitted = Append(@, [startTarget |-> startTarget,
                                          boundingRect |-> boundingRect])])

\* the dispatch of one mouseup to the body: every registered listener runs,
\* in registration order, each followed by the render its updates schedule
RECURSIVE dispatchMouseUp(_, _, _, _, _)
dispatchMouseUp(st, handlers, target, pageX, pageY) ==
    IF handlers = << >> THEN st
    ELSE dispatchMouseUp(
             render(mouseUpHandler(st, Head(handlers), target, pageX, pageY)),
             Tail(handlers), target, pageX, pageY)

----------------------------------------------------------------------------
\* Highlighter.tsx: grouping

\* an absent (undefined) highlight id
NoId == "undefined"

\* JavaScript truthiness of an optional number
Truthy(n) == n # 0

Range(seq) == { seq[i] : i \in 1..Len(seq) }

\* Set.prototype.add on a Set kept in insertion order
SetAdd(seq, x) == IF x \in Range(seq) THEN seq ELSE Append(seq, x)

\* lines 355-359: the pages named by the rects of one highlight
RECURSIVE addRectPages(_, _)
addRectPages(pageNumbers, rects) ==
    IF rects = << >> THEN pageNumbers
    ELSE addRectPages(
             IF Truthy(Head(rects).pageNumber)
             THEN SetAdd(pageNumbers, Head(rects).pageNumber)
             ELSE pageNumbers,
             Tail(rects))

\* lines 352-360: the Set of page numbers, in insertion order
RECURSIVE collectPageNumbers(_, _)
collectPageNumbers(pageNumbers, allHighlights) ==
    IF allHighlights = << >> THEN pageNumbers
    ELSE collectPageNumbers(
             addRectPages(SetAdd(pageNumbers, Head(allHighlights).position.pageNumber),
                          Head(allHighlights).position.rects),
             Tail(allHighlights))

\* position.usePdfCoordinates; a position without the property (a viewport
\* position) reads undefined, which the conversions take as false
usePdfCoordinatesOf(position) ==
    IF "usePdfCoordinates" \in DOMAIN position THEN position.usePdfCoordinates ELSE FALSE

\* rectsOnPage that reads every rect as lying on the highlight's own page
rectsOnOwnPage(highlight, pageNumber) ==
    SelectSeq(highlight.position.rects,
              LAMBDA rect : pageNumber = highlight.position.pageNumber)

\* lines 375-380: the rects of a highlight that belong to pageNumber
rectsOnPage(highlight, pageNumber) ==
    SelectSeq(highlight.position.rects,
              LAMBDA rect :
                  pageNumber = (IF Truthy(rect.pageNumber) THEN rect.pageNumber
                                ELSE highlight.position.pageNumber))

\* pageSpecificHighlight whose boundingRect is cut down to the rects of the page
pageSpecificHighlightSliced(highlight, pageNumber) ==
    [highlight EXCEPT !.position =
        [ pageNumber |-> pageNumber,
          boundingRect |-> IF rectsOnPage(highlight, pageNumber) = << >>
                           THEN highlight.position.boundingRect
                           ELSE Head(rectsOnPage(highlight, pageNumber)),
          rects |-> rectsOnPage(highlight, pageNumber),
          usePdfCoordinates |-> usePdfCoordinatesOf(highlight.position) ]]

\* lines 365-373 and 377: the page-scoped copy
pageSpecificHighlight(highlight, pageNumber) ==
    [highlight EXCEPT !.position =
        [ pageNumber |-> pageNumber,
          boundingRect |-> highlight.position.boundingRect,
          rects |-> rectsOnPage(highlight, pageNumber),
          usePdfCoordinates |-> usePdfCoordinatesOf(highlight.position) ]]

\* groupPage that keeps a highlight only where it has rects
RECURSIVE groupPageRectsOnly(_, _)
groupPageRectsOnly(allHighlights, pageNumber) ==
    IF allHighlights = << >> THEN << >>
    ELSE LET highlight == Head(allHighlights)
             anyRectsOnPage == rectsOnPage(highlight, pageNumber) # << >>
         IN  (IF anyRectsOnPage
              THEN << pageSpecificHighlight(highlight, pageNumber) >>
              ELSE << >>)
             \o groupPageRectsOnly(Tail(allHighlights), pageNumber)

\* lines 364-384: the list built for one page number
RECURSIVE groupPage(_, _)
groupPage(allHighlights, pageNumber) ==
    IF allHighlights = << >> THEN << >>
    ELSE LET highlight == Head(allHighlights)
             anyRectsOnPage == rectsOnPage(highlight, pageNumber) # << >>
         IN  (IF anyRectsOnPage \/ pageNumber = highlight.position.pageNumber
              THEN << pageSpecificHighlight(highlight, pageNumber) >>
              ELSE << >>)
             \o groupPage(Tail(allHighlights), pageNumber)

\* lines 349-351: [...highlights, ghostHighlight].filter(Boolean)
allHighlightsOf(hs, ghost) ==
    SelectSeq(Append(hs, ghost), LAMBDA h : h # Null)

\* the returned object, as a function from its keys to the lists
groupHighlightsByPage(hs, ghost) ==
    LET allHighlights == allHighlightsOf(hs, ghost)
        pageNumbers == collectPageNumbers(<< >>, allHighlights)
    IN  [ pageNumber \in Range(pageNumbers) |-> groupPage(allHighlights, pageNumber) ]

\* x put into an ascending sequence of integers
RECURSIVE insertAscending(_, _)
insertAscending(seq, x) ==
    IF seq = << >> THEN << x >>
    ELSE IF x < Head(seq) THEN << x >> \o seq
    ELSE IF x = Head(seq) THEN seq
    ELSE << Head(seq) >> \o insertAscending(Tail(seq), x)

\* own keys enumerated in the order the properties were created
pageSpecificHighlightsKeysAsCreated(pageNumbers) == pageNumbers

\* lines 363 and 384: pageSpecificHighlights is a plain object whose properties
\* are created in the order of pageNumbers; its keys are integer indices,
\* which an enumeration of own keys meets in ascending numeric order
RECURSIVE pageSpecificHighlightsKeys(_)
pageSpecificHighlightsKeys(pageNumbers) ==
    IF pageNumbers = << >> THEN << >>
    ELSE insertAscending(pageSpecificHighlightsKeys(Tail(pageNumbers)),
                         Head(pageNumbers))

\* the own keys of the object groupHighlightsByPage returns
groupedKeysOf(hs, ghost) ==
    pageSpecificHighlightsKeys(collectPageNumbers(<< >>, allHighlightsOf(hs, ghost)))

----------------------------------------------------------------------------
\* The page viewports (pdf.js) and the coordinate helpers of Context.tsx

Pages == 1..MaxPage
Scales == 1..MaxScale

\* the size of a page at zoom 1: odd pages portrait, even pages landscape
PageSize(pageNumber) ==
    IF pageNumber % 2 = 1 THEN [width |-> Px(60), height |-> Px(80)]
    ELSE [width |-> Px(80), height |-> Px(60)]

\* viewer.getPageView(pageNumber - 1).viewport: the rendered size of the page
\* at the viewer's zoom, and the zoom its native-to-rendered mapping applies
getPageViewport(viewer, pageNumber) ==
    [ width  |-> viewer.currentScale * PageSize(pageNumber).width,
      height |-> viewer.currentScale * PageSize(pageNumber).height,
      scale  |-> viewer.currentScale ]

\* props.pdfViewer once set, at zoom s
ViewerAt(s) == [present |-> TRUE, currentScale |-> s]

\* viewport.convertToViewportRectangle: both corners of a native page-space
\* rectangle (origin bottom-left, y upward) mapped to rendered pixels (origin
\* top-left, y downward)
convertToViewportRectangle(viewport, pdfRectangle) ==
    [ x1 |-> pdfRectangle.x1 * viewport.scale,
      y1 |-> viewport.height - pdfRectangle.y1 * viewport.scale,
      x2 |-> pdfRectangle.x2 * viewport.scale,
      y2 |-> viewport.height - pdfRectangle.y2 * viewport.scale ]

\* viewportToScaled that stores the rect's width as the second corner
libViewportToScaledSizeAsCorner(rect, viewport) ==
    [ x1 |-> rect.left,
      y1 |-> rect.top,
      x2 |-> rect.width,
      y2 |-> rect.height,
      width  |-> viewport.width,
      height |-> viewport.height,
      pageNumber |-> rect.pageNumber ]

\* lib/coordinates viewportToScaled: the corners of the rect and the rendered
\* page dimensions at call time
libViewportToScaled(rect, viewport) ==
    [ x1 |-> rect.left,
      y1 |-> rect.top,
      x2 |-> rect.left + rect.width,
      y2 |-> rect.top + rect.height,
      width  |-> viewport.width,
      height |-> viewport.height,
      pageNumber |-> rect.pageNumber ]

\* scaledToViewport whose non-PDF branch returns the stored corners unscaled
libScaledToViewportUnscaled(scaled, viewport, usePdfCoordinates) ==
    IF usePdfCoordinates
    THEN LET r == convertToViewportRectangle(viewport, scaled)
         IN  [ left |-> Min(r.x1, r.x2), top |-> Min(r.y1, r.y2),
               width |-> Abs(r.x2 - r.x1), height |-> Abs(r.y1 - r.y2),
               pageNumber |-> scaled.pageNumber ]
    ELSE [ left |-> scaled.x1, top |-> scaled.y1,
           width |-> scaled.x2 - scaled.x1, height |-> scaled.y2 - scaled.y1,
           pageNumber |-> scaled.pageNumber ]

\* lib/coordinates scaledToViewport. PDF branch: both corners go through the
\* viewport's native-to-rendered mapping and the rect takes the smaller of
\* each pair as left and top. Other branch: each coordinate is multiplied by
\* rendered size / stored size; the quotient is computed after the product
\* so that the integer arithmetic gives the same number
libScaledToViewport(scaled, viewport, usePdfCoordinates) ==
    IF usePdfCoordinates
    THEN LET r == convertToViewportRectangle(viewport, scaled)
         IN  [ left |-> Min(r.x1, r.x2), top |-> Min(r.y1, r.y2),
               width |-> Abs(r.x2 - r.x1), height |-> Abs(r.y1 - r.y2),
               pageNumber |-> scaled.pageNumber ]
    ELSE LET x1 == (scaled.x1 * viewport.width) \div scaled.width
             y1 == (scaled.y1 * viewport.height) \div scaled.height
             x2 == (scaled.x2 * viewport.width) \div scaled.width
             y2 == (scaled.y2 * viewport.height) \div scaled.height
         IN  [ left |-> x1, top |-> y1, width |-> x2 - x1, height |-> y2 - y1,
               pageNumber |-> scaled.pageNumber ]

\* Context.tsx lines 42-56; an absent usePdfCoordinates is FALSE
scaledPositionToViewport(viewer, position) ==
    LET viewport == getPageViewport(viewer, position.pageNumber) IN
    [ boundingRect |-> libScaledToViewport(position.boundingRect, viewport,
                                           position.usePdfCoordinates),
      rects |-> [ k \in 1..Len(position.rects) |->
                      libScaledToViewport(position.rects[k], viewport,
                                          position.usePdfCoordinates) ],
      pageNumber |-> position.pageNumber ]

\* viewportPositionToScaled that always takes the viewport of the first page
viewportPositionToScaledFirstPage(viewer, position) ==
    LET viewport == getPageViewport(viewer, 1) IN
    [ boundingRect |-> libViewportToScaled(position.boundingRect, viewport),
      rects |-> [ k \in 1..Len(position.rects) |->
                      libViewportToScaled(position.rects[k], viewport) ],
      pageNumber |-> position.pageNumber,
      usePdfCoordinates |-> FALSE ]

\* Context.tsx lines 84-96; the result carries no usePdfCoordinates
viewportPositionToScaled(viewer, position) ==
    LET viewport == getPageViewport(viewer, position.pageNumber) IN
    [ boundingRect |-> libViewportToScaled(position.boundingRect, viewport),
      rects |-> [ k \in 1..Len(position.rects) |->
                      libViewportToScaled(position.rects[k], viewport) ],
      pageNumber |-> position.pageNumber,
      usePdfCoordinates |-> FALSE ]

\* Context.tsx lines 149-157
scaledToViewport(viewer, pageNumber, scaled, usePdfCoordinates) ==
    libScaledToViewport(scaled, getPageViewport(viewer, pageNumber), usePdfCoordinates)

----------------------------------------------------------------------------
\* Highlighter.tsx: the selection handlers

LTWHP(left, top, width, height, pageNumber) ==
    [left |-> left, top |-> top, width |-> width, height |-> height,
     pageNumber |-> pageNumber]

Max(a, b) == IF a >= b THEN a ELSE b

\* a region of a page as the viewer renders it at zoom s
Zoomed(rect, s) ==
    LTWHP(s * rect.left, s * rect.top, s * rect.width, s * rect.height,
          rect.pageNumber)

\* a union whose width and height are the greatest width and height of the
\* rects, not the span of their edges
RECURSIVE libGetBoundingRectWidest(_)
libGetBoundingRectWidest(rects) ==
    IF Len(rects) = 1 THEN Head(rects)
    ELSE LET a == Head(rects)
             b == libGetBoundingRectWidest(Tail(rects))
         IN  LTWHP(Min(a.left, b.left), Min(a.top, b.top),
                   Max(a.width, b.width), Max(a.height, b.height),
                   a.pageNumber)

\* lib/get-bounding-rect: the union of the rects (left/top the least,
\* right/bottom the greatest), tagged with the page of the first rect
RECURSIVE libGetBoundingRect(_)
libGetBoundingRect(rects) ==
    IF Len(rects) = 1 THEN Head(rects)
    ELSE LET a == Head(rects)
             b == libGetBoundingRect(Tail(rects))
             left == Min(a.left, b.left)
             top == Min(a.top, b.top)
         IN  LTWHP(left, top,
                   Max(a.left + a.width, b.left + b.width) - left,
                   Max(a.top + a.height, b.top + b.height) - top,
                   a.pageNumber)

\* the Highlighter state the handlers write
HighlighterState ==
    [ viewportPosition |-> viewportPosition,
      highlight |-> currentHighlight,
      ghostHighlight |-> ghostHighlight,
      selectionIsCollapsed |-> selectionIsCollapsed ]

\* lines 141-147
onChangeHighlight(st, position, highlight) ==
    [st EXCEPT !.viewportPosition = position, !.highlight = highlight]

\* clearState that leaves the ghost highlight set
clearStateKeepsGhost(st) ==
    [st EXCEPT !.viewportPosition = Null, !.highlight = Null]

\* lines 148-152
clearState(st) ==
    [st EXCEPT !.ghostHighlight = Null, !.viewportPosition = Null, !.highlight = Null]

\* handlePointerDown that clears whatever the target
handlePointerDownAnywhere(st, viewer, target) ==
    IF ~viewer.present \/ ~TargetInfo[target].html THEN st ELSE clearState(st)

\* lines 286-291, the listener of lines 247-249
handlePointerDown(st, viewer, target) ==
    IF ~viewer.present \/ ~TargetInfo[target].html THEN st
    ELSE IF TargetInfo[target].popup THEN st
    ELSE clearState(st)

\* lib/pdfjs-dom getPageFromElement: the page of the closest ".page"
\* ancestor, or null
getPageFromElement(element) ==
    IF TargetInfo[element].page = NoPage THEN Null
    ELSE [number |-> TargetInfo[element].page]

\* page.node.offsetTop: the pages are stacked, each below the ones before it
RECURSIVE offsetTop(_, _)
offsetTop(viewer, pageNumber) ==
    IF pageNumber = 1 THEN 0
    ELSE offsetTop(viewer, pageNumber - 1)
         + getPageViewport(viewer, pageNumber - 1).height

\* page.node.offsetLeft: a page is centred in the width of the widest page
offsetLeft(viewer, pageNumber) ==
    (viewer.currentScale * Px(80) - getPageViewport(viewer, pageNumber).width) \div 2

\* Context.tsx lines 159-162, lib/get-area-as-png: the PNG data URI of the
\* region of the page's canvas
screenshot(viewer, position, pageNumber) ==
    [ dataUri |-> "data:image/png", pageNumber |-> pageNumber,
      left |-> position.left, top |-> position.top,
      width |-> position.width, height |-> position.height ]

\* an image draft that is given an id
imageHighlightWithId(scaledPosition, image) ==
    [ position |-> scaledPosition, content |-> [image |-> image],
      type |-> "image", id |-> "draft", comment |-> Null ]

\* lines 172-176: the draft carries neither id nor comment
imageHighlight(scaledPosition, image) ==
    [ position |-> scaledPosition, content |-> [image |-> image],
      type |-> "image", id |-> NoId, comment |-> Null ]

\* onMouseSelection that keeps the container-relative rectangle
onMouseSelectionUntranslated(st, viewer, element, boundingRect) ==
    LET page == getPageFromElement(element) IN
    IF page = Null THEN st
    ELSE
      LET pageBoundingRect ==
              LTWHP(boundingRect.left, boundingRect.top,
                    boundingRect.width, boundingRect.height, page.number)
          position == [ boundingRect |-> pageBoundingRect, rects |-> << >>,
                        pageNumber |-> page.number ]
          image == screenshot(viewer, pageBoundingRect, pageBoundingRect.pageNumber)
          scaledPosition == viewportPositionToScaled(viewer, position)
      IN  onChangeHighlight(st, position, imageHighlight(scaledPosition, image))

\* lines 153-178
onMouseSelection(st, viewer, element, boundingRect) ==
    LET page == getPageFromElement(element) IN
    IF page = Null THEN st
    ELSE
      LET pageBoundingRect ==
              LTWHP(boundingRect.left - offsetLeft(viewer, page.number),
                    boundingRect.top - offsetTop(viewer, page.number),
                    boundingRect.width, boundingRect.height, page.number)
          position == [ boundingRect |-> pageBoundingRect, rects |-> << >>,
                        pageNumber |-> page.number ]
          image == screenshot(viewer, pageBoundingRect, pageBoundingRect.pageNumber)
          scaledPosition == viewportPositionToScaled(viewer, position)
      IN  onChangeHighlight(st, position, imageHighlight(scaledPosition, image))

\* the onSelection calls of one mouseup, in the order they were made
RECURSIVE onSelections(_, _, _)
onSelections(st, viewer, calls) ==
    IF calls = << >> THEN st
    ELSE onSelections(onMouseSelection(st, viewer, Head(calls).startTarget,
                                       Head(calls).boundingRect),
                      viewer, Tail(calls))

\* window.getSelection() with nothing selected
Collapsed == [isCollapsed |-> TRUE]

\* lib/pdfjs-dom getPagesFromRange: the pages the range touches, in document order
getPagesFromRange(range) == [ k \in 1..Len(range.pages) |-> [number |-> range.pages[k]] ]

\* lib/get-client-rects getClientRects: the client rects of the range that
\* lie on the pages, page-relative
getClientRects(range, pages) == range.clientRects

\* onSelectionchange that takes the last page of the range as the position's page
onSelectionchangeLastPage(st, viewer, sel) ==
    IF ~viewer.present THEN st
    ELSE IF sel.isCollapsed THEN [st EXCEPT !.selectionIsCollapsed = TRUE]
    ELSE IF ~sel.range.inContainer THEN st
    ELSE
      LET collapsedCleared == [st EXCEPT !.selectionIsCollapsed = FALSE]
          pages == getPagesFromRange(sel.range)
          rects == getClientRects(sel.range, pages)
      IN  IF pages = << >> THEN collapsedCleared
          ELSE IF rects = << >> THEN collapsedCleared
          ELSE
            LET position == [ boundingRect |-> libGetBoundingRect(rects),
                              rects |-> rects,
                              pageNumber |-> pages[Len(pages)].number ]
                highlight == [ position |-> viewportPositionToScaled(viewer, position),
                               content |-> [text |-> sel.range.text],
                               type |-> "text", id |-> NoId, comment |-> Null ]
            IN  onChangeHighlight(collapsedCleared, position, highlight)

\* lines 201-235
onSelectionchange(st, viewer, sel) ==
    IF ~viewer.present THEN st
    ELSE IF sel.isCollapsed THEN [st EXCEPT !.selectionIsCollapsed = TRUE]
    ELSE IF ~sel.range.inContainer THEN st
    ELSE
      LET collapsedCleared == [st EXCEPT !.selectionIsCollapsed = FALSE]
          pages == getPagesFromRange(sel.range)
          rects == getClientRects(sel.range, pages)
      IN  IF pages = << >> THEN collapsedCleared
          ELSE IF rects = << >> THEN collapsedCleared
          ELSE
            LET position == [ boundingRect |-> libGetBoundingRect(rects),
                              rects |-> rects,
                              pageNumber |-> pages[1].number ]
                highlight == [ position |-> viewportPositionToScaled(viewer, position),
                               content |-> [text |-> sel.range.text],
                               type |-> "text", id |-> NoId, comment |-> Null ]
            IN  onChangeHighlight(collapsedCleared, position, highlight)

\* the stored corners x1..y2 that lib/coordinates reads are there
HasCorners(rect) == {"x1", "y1", "x2", "y2"} \subseteq DOMAIN rect

\* what the conversion makes of a position that has no stored corners (one
\* that is in viewport space already): no geometry
NoGeometry == [geometry |-> FALSE]

\* HighlightLayers.tsx lines 58-62: the viewport highlights rendered for the
\* pages, each position converted at this render
renderHighlightLayers(viewer, pageHighlights) ==
    [ pageNumber \in DOMAIN pageHighlights |->
        [ k \in 1..Len(pageHighlights[pageNumber]) |->
            [ pageHighlights[pageNumber][k] EXCEPT
                !.position = IF HasCorners(@.boundingRect)
                             THEN scaledPositionToViewport(viewer, @)
                             ELSE NoGeometry ] ] ]

----------------------------------------------------------------------------
\* The area-selection machine

NoEvent ==
    [type |-> "none", target |-> "container", point |-> Null, enabled |-> FALSE,
     phase |-> "Idle", anchor |-> Null, handlers |-> << >>, selection |-> Collapsed,
     code |-> ""]

\* the event as the handlers meet it
Event(type, target, pageX, pageY, enabled) ==
    [type |-> type, target |-> target, point |-> containerCoords(pageX, pageY),
     enabled |-> enabled, phase |-> Phase, anchor |-> startRef,
     handlers |-> upHandlers, selection |-> Collapsed, code |-> ""]

\* an event that is no pointer event, as the Highlighter's handlers meet it
OtherEvent(type, sel) ==
    [NoEvent EXCEPT !.type = type, !.phase = Phase, !.anchor = startRef,
                    !.handlers = upHandlers, !.selection = sel]

\* props.pdfViewer as the handlers of this render see it
Viewer == [present |-> pdfViewer, currentScale |-> scale]

\* the Highlighter state written back; the memo of line 136 follows the ghost
CommitHighlighter(st) ==
    /\ viewportPosition' = st.viewportPosition
    /\ currentHighlight' = st.highlight
    /\ selectionIsCollapsed' = st.selectionIsCollapsed
    /\ ghostHighlight' = st.ghostHighlight
    /\ grouped' = groupHighlightsByPage(highlights, st.ghostHighlight)
    /\ groupedKeys' = groupedKeysOf(highlights, st.ghostHighlight)
    /\ UNCHANGED highlights

Commit(st) ==
    /\ pdfViewer' = st.pdfViewer
    /\ locked' = st.locked
    /\ startCoords' = st.startCoords
    /\ endCoords' = st.endCoords
    /\ startRef' = st.startRef
    /\ lockedRef' = st.lockedRef
    /\ disabledSelection' = st.disabledSelection
    /\ emitted' = st.emitted
    /\ mouseSelectionInProgress' = st.mouseSelectionInProgress

InitMouse ==
    /\ pdfViewer = FALSE
    /\ locked = FALSE
    /\ startCoords = Null
    /\ endCoords = Null
    /\ startRef = Null
    /\ lockedRef = FALSE
    /\ disabledSelection = FALSE
    /\ upHandlers = << >>
    /\ emitted = << >>
    /\ ev = NoEvent
    /\ mouseSelectionInProgress = FALSE

InitHighlighter ==
    /\ scale = 1
    /\ selectionIsCollapsed = TRUE
    /\ viewportPosition = Null
    /\ currentHighlight = Null

InitCoordsIdle == coords = Null

\* the parts of the program a specification does not exercise
\* Highlighter.tsx line 39
EMPTY_SCROLL_ID == "empty-scroll-id"

\* nothing scrolled to; no document loader mounted
InitLoaderIdle ==
    /\ scrollId = EMPTY_SCROLL_ID
    /\ loader = Null

InitAuxIdle ==
    /\ positioner = Null
    /\ timers = Null
    /\ listeners = Null
    /\ pageViews = Null
    /\ InitLoaderIdle

\* the viewer is set, the pointer is idle
InitViewerReady ==
    /\ pdfViewer = TRUE
    /\ locked = FALSE
    /\ startCoords = Null
    /\ endCoords = Null
    /\ startRef = Null
    /\ lockedRef = FALSE
    /\ disabledSelection = FALSE
    /\ upHandlers = << >>
    /\ emitted = << >>
    /\ ev = NoEvent
    /\ mouseSelectionInProgress = FALSE

InitGroupIdle ==
    /\ highlights = << >>
    /\ ghostHighlight = Null
    /\ grouped = groupHighlightsByPage(<< >>, Null)
    /\ groupedKeys = groupedKeysOf(<< >>, Null)

\* PdfViewer.initialize: the viewer is created and handed to the Highlighter
SetPdfViewer ==
    /\ ~pdfViewer
    /\ pdfViewer' = TRUE
    /\ UNCHANGED <<locked, startCoords, endCoords, startRef, lockedRef,
                   disabledSelection, upHandlers, emitted, ev,
                   mouseSelectionInProgress>>
    /\ UNCHANGED groupVars
    /\ UNCHANGED highlighterVars
    /\ UNCHANGED <<coordVars, auxVars>>

\* a press on the container: the browser dispatches "pointerdown" and then
\* "mousedown" to the target
MouseDown ==
    \E target \in PressTargets(pdfViewer, currentHighlight), pp \in PagePoints,
       enabled \in BOOLEAN :
        LET r == mouseDownHandler([MouseState EXCEPT !.emitted = << >>],
                                  target, enabled, pp.pageX, pp.pageY)
        IN  /\ TargetInfo[target].inContainer
            /\ r.accepted => Len(upHandlers) < MaxPending
            /\ Commit(render(r.state))
            /\ upHandlers' = IF r.accepted THEN Append(upHandlers, target)
                             ELSE upHandlers
            /\ ev' = Event("mousedown", target, pp.pageX, pp.pageY, enabled)
            /\ CommitHighlighter(handlePointerDown(HighlighterState, Viewer, target))
            /\ UNCHANGED scale
            /\ UNCHANGED <<coordVars, auxVars>>

\* "mousemove" on the container (the handler reads the pointer position only)
MouseMove ==
    \E pp \in PagePoints :
        /\ Commit(render(mouseMoveHandler([MouseState EXCEPT !.emitted = << >>],
                                          pp.pageX, pp.pageY)))
        /\ ev' = Event("mousemove", "container", pp.pageX, pp.pageY, FALSE)
        /\ UNCHANGED upHandlers
        /\ UNCHANGED groupVars
        /\ UNCHANGED highlighterVars
        /\ UNCHANGED <<coordVars, auxVars>>

\* "mouseup" reaching document.body while it has listeners; every
\* onSelection call made by the listeners is the Highlighter's onMouseSelection
MouseUp ==
    \E target \in TargetsPresent(pdfViewer), pp \in PagePoints :
        LET st == dispatchMouseUp([MouseState EXCEPT !.emitted = << >>],
                                  upHandlers, target, pp.pageX, pp.pageY)
        IN  /\ upHandlers # << >>
            /\ Commit(st)
            /\ upHandlers' = << >>
            /\ ev' = Event("mouseup", target, pp.pageX, pp.pageY, FALSE)
            /\ CommitHighlighter(onSelections(HighlighterState, Viewer, st.emitted))
            /\ UNCHANGED scale
            /\ UNCHANGED <<coordVars, auxVars>>

Init == InitMouse /\ InitGroupIdle /\ InitHighlighter /\ InitCoordsIdle /\ InitAuxIdle

Next == SetPdfViewer \/ MouseDown \/ MouseMove \/ MouseUp

Spec == Init /\ [][Next]_vars

----------------------------------------------------------------------------
\* The Highlighter: drafts from text and area selections, the ghost, the zoom

\* what window.getSelection() can hold at zoom s: nothing, a range outside
\* the container, a range that touches no page or has no client rects, text
\* on the first page (rects untagged: one line reported twice, two lines) or
\* on the second page and the next (rects tagged)
Selections(s) ==
    LET line1(tag) == Zoomed(LTWHP(Px(5), Px(20), Px(30), Px(5), tag), s)
        line2(tag) == Zoomed(LTWHP(Px(10), Px(30), Px(40), Px(5), tag), s)
        Range1(inContainer, pages, clientRects) ==
            [ isCollapsed |-> FALSE,
              range |-> [ inContainer |-> inContainer, pages |-> pages,
                          clientRects |-> clientRects, text |-> "selected text" ] ]
    IN  { Collapsed, Range1(FALSE, << >>, << >>), Range1(TRUE, << >>, << >>),
          Range1(TRUE, << 1 >>, << >>),
          Range1(TRUE, << 1 >>, << line2(NoPage), line2(NoPage) >>),
          Range1(TRUE, << 1 >>, << line1(NoPage), line2(NoPage) >>) }
        \cup { Range1(TRUE, << p, p + 1 >>, << line1(p), line2(p + 1) >>) :
                   p \in { q \in {2} : q < MaxPage } }

\* a drag in progress: the state the accepted mousedown on a page leaves
InitDragging ==
    \E target \in { t \in Targets : TargetInfo[t].html /\ TargetInfo[t].page # NoPage },
       pp \in { q \in PagePoints :
                    containerCoords(q.pageX, q.pageY) \in
                        { [x |-> Px(10), y |-> Px(10)], [x |-> Px(50), y |-> Px(50)] } } :
        LET idle == [ pdfViewer |-> TRUE, locked |-> FALSE, startCoords |-> Null,
                      endCoords |-> Null, startRef |-> Null, lockedRef |-> FALSE,
                      disabledSelection |-> FALSE, emitted |-> << >>,
                      rendered |-> [startCoords |-> Null, endCoords |-> Null],
                      mouseSelectionInProgress |-> FALSE ]
            st == render(mouseDownHandler(idle, target, TRUE, pp.pageX, pp.pageY).state)
        IN  /\ pdfViewer = st.pdfViewer
            /\ locked = st.locked
            /\ startCoords = st.startCoords
            /\ endCoords = st.endCoords
            /\ startRef = st.startRef
            /\ lockedRef = st.lockedRef
            /\ disabledSelection = st.disabledSelection
            /\ emitted = st.emitted
            /\ mouseSelectionInProgress = st.mouseSelectionInProgress
            /\ upHandlers = << target >>
            /\ ev = [NoEvent EXCEPT !.type = "mousedown", !.target = target,
                                    !.point = st.startCoords, !.enabled = TRUE]

InitHighlighterDragging ==
    /\ InitDragging
    /\ InitGroupIdle
    /\ scale \in Scales
    /\ selectionIsCollapsed = TRUE
    /\ viewportPosition = Null
    /\ currentHighlight = Null
    /\ InitCoordsIdle
    /\ InitAuxIdle

\* the debounced "selectionchange" listener runs onSelectionchange
SelectionChange ==
    \E sel \in Selections(scale) :
        /\ CommitHighlighter(onSelectionchange(HighlighterState, Viewer, sel))
        /\ ev' = OtherEvent("selectionchange", sel)
        /\ UNCHANGED <<pdfViewer, locked, startCoords, endCoords, startRef, lockedRef,
                       disabledSelection, upHandlers, emitted, mouseSelectionInProgress>>
        /\ UNCHANGED scale
        /\ UNCHANGED <<coordVars, auxVars>>

\* highlightContext.onShow, offered while a highlight is current (lines 299-306)
OnShow ==
    /\ currentHighlight # Null
    /\ CommitHighlighter([HighlighterState EXCEPT !.ghostHighlight = currentHighlight])
    /\ ev' = OtherEvent("onShow", Collapsed)
    /\ UNCHANGED <<pdfViewer, locked, startCoords, endCoords, startRef, lockedRef,
                   disabledSelection, upHandlers, emitted, mouseSelectionInProgress>>
    /\ UNCHANGED scale
    /\ UNCHANGED <<coordVars, auxVars>>

\* highlightContext.onHide, offered while a highlight is current (lines 299-306)
OnHide ==
    /\ currentHighlight # Null
    /\ CommitHighlighter(clearState(HighlighterState))
    /\ ev' = OtherEvent("onHide", Collapsed)
    /\ UNCHANGED <<pdfViewer, locked, startCoords, endCoords, startRef, lockedRef,
                   disabledSelection, upHandlers, emitted, mouseSelectionInProgress>>
    /\ UNCHANGED scale
    /\ UNCHANGED <<coordVars, auxVars>>

\* "keydown" on the document (lines 239-241)
KeyDown ==
    \E code \in {"Escape", "Enter"} :
        /\ CommitHighlighter(IF code = "Escape" THEN clearState(HighlighterState)
                             ELSE HighlighterState)
        /\ ev' = [OtherEvent("keydown", Collapsed) EXCEPT !.code = code]
        /\ UNCHANGED <<pdfViewer, locked, startCoords, endCoords, startRef, lockedRef,
                       disabledSelection, upHandlers, emitted, mouseSelectionInProgress>>
        /\ UNCHANGED scale
        /\ UNCHANGED <<coordVars, auxVars>>

\* the window is resized or the scale value changes: the viewer rebuilds the
\* page viewports at another zoom; the Highlighter keeps its state
Zoom ==
    \E s \in Scales \ {scale} :
        /\ scale' = s
        /\ ev' = OtherEvent("resize", Collapsed)
        /\ UNCHANGED <<pdfViewer, locked, startCoords, endCoords, startRef, lockedRef,
                       disabledSelection, upHandlers, emitted, mouseSelectionInProgress>>
        /\ UNCHANGED <<selectionIsCollapsed, viewportPosition, currentHighlight>>
        /\ UNCHANGED groupVars
        /\ UNCHANGED <<coordVars, auxVars>>

NextHighlighter == MouseUp \/ SelectionChange \/ OnShow \/ KeyDown \/ Zoom

SpecHighlighter == InitHighlighterDragging /\ [][NextHighlighter]_vars

----------------------------------------------------------------------------
\* The grouping of props.highlights and the ghost highlight

\* sequences over S of length 0..n
RECURSIVE SeqsUpTo(_, _)
SeqsUpTo(S, n) ==
    IF n = 0 THEN { << >> }
    ELSE LET shorter == SeqsUpTo(S, n - 1)
         IN  shorter \cup { Append(q, x) : q \in { r \in shorter : Len(r) = n - 1 }, x \in S }

\* a stored rect: the k-th rect of a position, tagged with page tag (NoPage: untagged)
ScaledRect(k, tag) ==
    [ x1 |-> 10 * k, y1 |-> 20 * k, x2 |-> 10 * k + 5, y2 |-> 20 * k + 3,
      width |-> 600, height |-> 800, pageNumber |-> tag ]

\* a highlight on page p whose rects carry the page tags of tags
Highlight(id, p, tags, pdfCoords) ==
    [ id |-> id,
      type |-> IF tags = << >> THEN "image" ELSE "text",
      content |-> IF tags = << >> THEN [image |-> "data:image/png"] ELSE [text |-> "text"],
      comment |-> IF id = NoId THEN Null ELSE [text |-> "comment", emoji |-> ""],
      position |->
          [ pageNumber |-> p,
            boundingRect |-> ScaledRect(0, IF tags = << >> THEN p ELSE NoPage),
            rects |-> [ k \in 1..Len(tags) |-> ScaledRect(k, tags[k]) ],
            usePdfCoordinates |-> pdfCoords ] ]

\* the page tags of the rects of a selection that starts on page p: untagged,
\* p itself, or the page after it
TagsFor(p) == {NoPage, p} \cup ({p + 1} \cap Pages)

\* the persisted highlight of slot i of props.highlights, with id i, or a null
\* entry; the first slot holds a text or an image highlight, the later ones
\* an image highlight
SlotChoices(i) ==
    { Null } \cup
    UNION { { Highlight(ToString(i), p, tags, i = 1) :
                  tags \in IF i = 1 THEN SeqsUpTo(TagsFor(p), MaxRects) ELSE { << >> } } :
            p \in Pages }

\* the lists of exactly n slots
RECURSIVE ListsOfLen(_)
ListsOfLen(n) ==
    IF n = 0 THEN { << >> }
    ELSE { Append(hs, h) : hs \in ListsOfLen(n - 1), h \in SlotChoices(n) }

HighlightLists == UNION { ListsOfLen(n) : n \in 0..MaxHighlights }

\* the transient highlight: none, an area draft, or a text draft over p and p + 1
Ghosts ==
    { Null } \cup
    { Highlight(NoId, p, << >>, FALSE) : p \in Pages } \cup
    { Highlight(NoId, p, <<p, p + 1>>, FALSE) : p \in 1..(MaxPage - 1) }

InitGroup ==
    /\ InitMouse
    /\ InitHighlighter
    /\ InitCoordsIdle
    /\ InitAuxIdle
    /\ highlights \in HighlightLists
    /\ ghostHighlight \in Ghosts
    /\ grouped = groupHighlightsByPage(highlights, ghostHighlight)
    /\ groupedKeys = groupedKeysOf(highlights, ghostHighlight)

\* highlightContext.onShow: setGhostHighlight(highlight), the memo recomputed
ShowGhost ==
    \E g \in Ghosts \ {Null} :
        /\ ghostHighlight' = g
        /\ grouped' = groupHighlightsByPage(highlights, g)
        /\ groupedKeys' = groupedKeysOf(highlights, g)
        /\ UNCHANGED highlights
        /\ UNCHANGED mouseVars
        /\ UNCHANGED highlighterVars
        /\ UNCHANGED <<coordVars, auxVars>>

\* clearState: setGhostHighlight(undefined), the memo recomputed
ClearGhost ==
    /\ ghostHighlight # Null
    /\ ghostHighlight' = Null
    /\ grouped' = groupHighlightsByPage(highlights, Null)
    /\ groupedKeys' = groupedKeysOf(highlights, Null)
    /\ UNCHANGED highlights
    /\ UNCHANGED mouseVars
    /\ UNCHANGED highlighterVars
    /\ UNCHANGED <<coordVars, auxVars>>

NextGroup == ShowGhost \/ ClearGhost

SpecGroup == InitGroup /\ [][NextGroup]_vars

----------------------------------------------------------------------------
\* The coordinate helpers applied to positions drawn at Init

\* regions of a page at zoom 1: a square, a line of text, a strip at the top left
PageRegions(tag) ==
    { LTWHP(Px(10), Px(10), Px(40), Px(40), tag),
      LTWHP(Px(5), Px(20), Px(30), Px(5), tag),
      LTWHP(0, 0, Px(60), Px(3), tag) }

\* the viewport positions a selection at zoom s can hand to the helpers: an
\* area on page p, or text whose rects lie on p or on p and the page after it
CapturedPositions(s) ==
    UNION { { [ boundingRect |-> Zoomed(r, s), rects |-> << >>, pageNumber |-> p ] :
                  r \in PageRegions(p) } : p \in Pages }
    \cup
    UNION { { LET rects == << Zoomed(LTWHP(Px(5), Px(20), Px(30), Px(5), p), s),
                             Zoomed(LTWHP(Px(10), Px(30), Px(40), Px(5), q), s) >>
              IN  [ boundingRect |-> libGetBoundingRect(rects),
                    rects |-> rects,
                    pageNumber |-> p ] :
              q \in {p} \cup ({p + 1} \cap Pages) } : p \in Pages }

InitCoords ==
    /\ InitMouse
    /\ InitGroupIdle
    /\ InitHighlighter
    /\ InitAuxIdle
    /\ \E s \in Scales : \E position \in CapturedPositions(s) :
           coords = [ position |-> position, captureScale |-> s, scaled |-> Null,
                      renderScale |-> s, usePdfCoordinates |-> FALSE,
                      viewport |-> Null, rect |-> Null ]

\* helpers.viewportPositionToScaled(position) at the zoom of the capture
ViewportPositionToScaled ==
    /\ coords.scaled = Null
    /\ coords' = [coords EXCEPT !.scaled =
                      viewportPositionToScaled(ViewerAt(coords.captureScale),
                                               coords.position)]
    /\ UNCHANGED <<mouseVars, groupVars, highlighterVars, auxVars>>

\* helpers.scaledPositionToViewport(position) at some zoom, the stored
\* position carrying the usePdfCoordinates its owner gave it
ScaledPositionToViewport ==
    /\ coords.scaled # Null
    /\ \E s \in Scales, usePdfCoordinates \in BOOLEAN :
           coords' = [coords EXCEPT
               !.renderScale = s,
               !.usePdfCoordinates = usePdfCoordinates,
               !.viewport = scaledPositionToViewport(ViewerAt(s),
                   [coords.scaled EXCEPT !.usePdfCoordinates = usePdfCoordinates]),
               !.rect = Null]
    /\ UNCHANGED <<mouseVars, groupVars, highlighterVars, auxVars>>

\* helpers.scaledToViewport(pageNumber, boundingRect, usePdfCoordinates) at some zoom
ScaledToViewport ==
    /\ coords.scaled # Null
    /\ \E s \in Scales, usePdfCoordinates \in BOOLEAN :
           coords' = [coords EXCEPT
               !.renderScale = s,
               !.usePdfCoordinates = usePdfCoordinates,
               !.rect = scaledToViewport(ViewerAt(s), coords.scaled.pageNumber,
                                         coords.scaled.boundingRect, usePdfCoordinates),
               !.viewport = Null]
    /\ UNCHANGED <<mouseVars, groupVars, highlighterVars, auxVars>>

NextCoords == ViewportPositionToScaled \/ ScaledPositionToViewport \/ ScaledToViewport

SpecCoords == InitCoords /\ [][NextCoords]_vars

----------------------------------------------------------------------------
\* Positioner.tsx: the popup anchored at the position of the current highlight

\* lines 95-97
clamp(value, left, right) == Min(Max(value, left), right)

\* a popup that is never taken for unmeasured
calculatingNever(width, height) == FALSE

\* line 126
calculating(width, height) == width = 0 /\ height = 0

\* a popup that is never moved below its anchor
shouldMoveNever(top, height, scrollTop) == FALSE

\* line 140
shouldMove(top, height, scrollTop) == top - height - Px(5) < scrollTop

\* lines 124-148, the style memo: node is the div of the anchor's page,
\* pageBoundingRect its client rectangle
style(viewer, position, width, height, scrollTop) ==
    LET boundingRect == position.boundingRect
        pageNumber == IF Truthy(boundingRect.pageNumber) THEN boundingRect.pageNumber
                      ELSE position.pageNumber
        pageBoundingRect == getPageViewport(viewer, pageNumber)
        partial ==
            [ left |-> offsetLeft(viewer, pageNumber) + boundingRect.left
                       + boundingRect.width \div 2,
              top |-> boundingRect.top + offsetTop(viewer, pageNumber),
              bottom |-> boundingRect.top + offsetTop(viewer, pageNumber)
                         + boundingRect.height ]
    IN  [ visibility |-> IF calculating(width, height) THEN "hidden" ELSE "visible",
          top |-> IF shouldMove(partial.top, height, scrollTop)
                  THEN partial.bottom + Px(5)
                  ELSE partial.top - height - Px(5),
          left |-> clamp(partial.left - width \div 2, 0, pageBoundingRect.width - width) ]

\* one render of the mounted Positioner
renderPositioner(p) ==
    [p EXCEPT !.style = style(ViewerAt(p.scale), p.position, p.width, p.height,
                              p.scrollTop)]

\* lines 117-122: the div is there whenever the Positioner is mounted with a position
updatePosition(p) ==
    [p EXCEPT !.height = p.element.offsetHeight, !.width = p.element.offsetWidth,
              !.timer = FALSE]

\* the anchors a highlight can give the popup at zoom s: at the top left
\* corner of its page, at the right edge, in the middle (tagged and untagged)
Anchors(s) ==
    UNION { { [ boundingRect |-> Zoomed(r, s), rects |-> << >>, pageNumber |-> p ] :
                r \in { LTWHP(0, 0, Px(4), Px(4), p),
                        LTWHP(PageSize(p).width - Px(4), Px(20), Px(4), Px(4), p),
                        LTWHP(Px(10), Px(10), Px(40), Px(40), p),
                        LTWHP(Px(10), Px(30), Px(40), Px(6), NoPage) } } :
            p \in Pages }

\* the sizes the popup's children can give its div: nothing, a tip, an editor
PopupSizes ==
    { [offsetWidth |-> 0, offsetHeight |-> 0],
      [offsetWidth |-> Px(20), offsetHeight |-> Px(10)],
      [offsetWidth |-> Px(70), offsetHeight |-> Px(30)] }

\* the scroll offsets of the viewer's container
ScrollTops == { 0, Px(30), Px(120) }

\* the viewer is set, nothing is selected and no highlight is current
InitPositioner ==
    /\ InitViewerReady
    /\ InitGroupIdle
    /\ InitHighlighter
    /\ InitCoordsIdle
    /\ positioner = Null
    /\ timers = Null
    /\ listeners = Null
    /\ pageViews = Null
    /\ InitLoaderIdle

\* a highlight becomes current: HighlightProvider renders its children and
\* the Positioner mounts; its effect arms the timer (lines 150-152)
MountPositioner ==
    /\ positioner = Null
    /\ \E s \in Scales, size \in PopupSizes, scrollTop \in ScrollTops :
       \E position \in Anchors(s) :
           positioner' = renderPositioner(
               [ position |-> position, width |-> 0, height |-> 0, timer |-> TRUE,
                 element |-> size, scrollTop |-> scrollTop, scale |-> s,
                 style |-> Null ])
    /\ UNCHANGED <<mouseVars, groupVars, highlighterVars, coordVars>>
    /\ UNCHANGED <<timers, listeners, pageViews, scrollId, loader>>

\* the timer of the effect fires: the size of the div is recorded
UpdatePosition ==
    /\ positioner # Null
    /\ positioner.timer
    /\ positioner' = renderPositioner(updatePosition(positioner))
    /\ UNCHANGED <<mouseVars, groupVars, highlighterVars, coordVars>>
    /\ UNCHANGED <<timers, listeners, pageViews, scrollId, loader>>

\* the Highlighter renders again ("textlayerrendered" while the container
\* scrolls, or another selection): the memo is recomputed
RenderPositioner ==
    /\ positioner # Null
    /\ \E scrollTop \in ScrollTops : \E position \in Anchors(positioner.scale) :
           positioner' = renderPositioner(
               [positioner EXCEPT !.scrollTop = scrollTop, !.position = position])
    /\ UNCHANGED <<mouseVars, groupVars, highlighterVars, coordVars>>
    /\ UNCHANGED <<timers, listeners, pageViews, scrollId, loader>>

\* clearState: HighlightProvider has no value and renders nothing
UnmountPositioner ==
    /\ positioner # Null
    /\ positioner' = Null
    /\ UNCHANGED <<mouseVars, groupVars, highlighterVars, coordVars>>
    /\ UNCHANGED <<timers, listeners, pageViews, scrollId, loader>>

NextPositioner ==
    MountPositioner \/ UpdatePosition \/ RenderPositioner \/ UnmountPositioner

SpecPositioner == InitPositioner /\ [][NextPositioner]_vars

----------------------------------------------------------------------------
\* Highlighter.tsx: the debounced selectionchange listener and the hover timer

\* line 242: the delay of the debounce, in milliseconds
DebounceWait == 500
\* line 198: the delay of the hover timer, in milliseconds
HoverDelay == 16

\* a debounced function that leaves a pending timer running
debounceNoRestart(pending, waitMilliseconds) ==
    IF pending = Null THEN [remaining |-> waitMilliseconds] ELSE pending

\* line 242, ts-debounce without isImmediate: a call clears the pending timer
\* and arms one of waitMilliseconds; the function runs when the timer fires
debounce(pending, waitMilliseconds) == [remaining |-> waitMilliseconds]

\* lines 191-199: the state after the handler, and the timer it arms
onMouseOverHighlightLayer(st, areaSelectionInProgress, viewportHighlight) ==
    LET highlightInProgress == ~st.selectionIsCollapsed \/ st.ghostHighlight # Null
        highlightId == IF st.highlight = Null THEN NoId ELSE st.highlight.id
    IN  IF highlightInProgress \/ areaSelectionInProgress
        THEN [state |-> st, timeout |-> Null]
        ELSE IF viewportHighlight.id = highlightId
        THEN [state |-> st, timeout |-> Null]
        ELSE [state |-> clearState(st),
              timeout |-> [delay |-> HoverDelay,
                           viewportHighlight |-> viewportHighlight]]

\* what the document can hold selected at zoom s when a timer looks: nothing,
\* or two lines of text on the first page
TimerSelections(s) ==
    { sel \in Selections(s) :
          sel.isCollapsed \/ (sel.range.inContainer /\ sel.range.pages = << 1 >>
                              /\ Len(sel.range.clientRects) = 2
                              /\ sel.range.clientRects[1] # sel.range.clientRects[2]) }

\* props.highlights: a text highlight on page 1, alone or with an area on page 2
PersistedHighlights ==
    { << Highlight("1", 1, << NoPage >>, FALSE) >>,
      << Highlight("1", 1, << NoPage >>, FALSE), Highlight("2", 2, << >>, FALSE) >> }

\* the layers a pointer can be over: the rendered viewport highlights
RenderedLayers ==
    LET layers == renderHighlightLayers(Viewer, grouped)
    IN  UNION { { layers[p][k] : k \in 1..Len(layers[p]) } : p \in DOMAIN layers }

InitTimers ==
    /\ InitViewerReady
    /\ highlights \in PersistedHighlights
    /\ ghostHighlight = Null
    /\ grouped = groupHighlightsByPage(highlights, Null)
    /\ groupedKeys = groupedKeysOf(highlights, Null)
    /\ InitHighlighter
    /\ InitCoordsIdle
    /\ timers = [ selection |-> Collapsed, debounce |-> Null, hover |-> Null,
                  sinceLast |-> Null, burst |-> 0, runs |-> 0 ]
    /\ positioner = Null
    /\ listeners = Null
    /\ pageViews = Null
    /\ InitLoaderIdle

\* "selectionchange" on the document: the debounced listener is called; a due
\* timer has fired before. sinceLast, burst and runs follow the burst the
\* event is in: it goes on while the events are less than the delay apart
SelectionChangeEvent ==
    /\ timers.debounce # Null => timers.debounce.remaining > 0
    /\ \E sel \in TimerSelections(scale) :
           LET goesOn == timers.sinceLast # Null
                         /\ timers.sinceLast.elapsed < DebounceWait
           IN
           /\ goesOn => timers.burst < MaxBurst
           /\ timers' =
                  [timers EXCEPT
                      !.selection = sel,
                      !.debounce = debounce(timers.debounce, DebounceWait),
                      !.burst = IF goesOn THEN @ + 1 ELSE 1,
                      !.runs = IF goesOn THEN @ ELSE 0,
                      !.sinceLast = [elapsed |-> 0]]
           /\ ev' = OtherEvent("selectionchange", sel)
    /\ UNCHANGED <<pdfViewer, locked, startCoords, endCoords, startRef, lockedRef,
                   disabledSelection, upHandlers, emitted, mouseSelectionInProgress>>
    /\ UNCHANGED <<groupVars, highlighterVars, coordVars>>
    /\ UNCHANGED <<positioner, listeners, pageViews, scrollId, loader>>

\* time passes, by half the delay of the debounce at a time; the hover delay
\* is shorter than that, so a pending hover timer fires before, and so does
\* a debounce timer that is due
Elapse ==
    LET step == DebounceWait \div 2 IN
    /\ HoverDelay < step
    /\ timers.hover = Null
    /\ timers.debounce # Null => timers.debounce.remaining > 0
    /\ \/ timers.debounce # Null
       \/ (timers.sinceLast # Null /\ timers.sinceLast.elapsed < DebounceWait)
    /\ timers' =
           [timers EXCEPT
               !.debounce = IF @ = Null THEN @
                            ELSE [@ EXCEPT !.remaining = Max(0, @ - step)],
               !.sinceLast = IF @ = Null THEN @
                             ELSE [elapsed |-> Min(DebounceWait, @.elapsed + step)]]
    /\ UNCHANGED <<mouseVars, groupVars, highlighterVars, coordVars>>
    /\ UNCHANGED <<positioner, listeners, pageViews, scrollId, loader>>

\* the debounce timer fires: onSelectionchange reads the selection of now
DebounceFire ==
    /\ timers.debounce # Null
    /\ timers.debounce.remaining = 0
    /\ CommitHighlighter(onSelectionchange(HighlighterState, Viewer, timers.selection))
    /\ timers' = [timers EXCEPT !.debounce = Null, !.runs = @ + 1]
    /\ UNCHANGED mouseVars
    /\ UNCHANGED <<scale, coordVars>>
    /\ UNCHANGED <<positioner, listeners, pageViews, scrollId, loader>>

\* "mouseover" on a rendered highlight layer; one hover timer pending at most
MouseOverHighlightLayer ==
    \E viewportHighlight \in RenderedLayers :
        LET r == onMouseOverHighlightLayer(HighlighterState,
                     mouseSelectionInProgress, viewportHighlight)
        IN  /\ r.timeout # Null => timers.hover = Null
            /\ CommitHighlighter(r.state)
            /\ timers' = IF r.timeout = Null THEN timers
                         ELSE [timers EXCEPT !.hover = r.timeout]
            /\ ev' = OtherEvent("mouseover", Collapsed)
            /\ UNCHANGED <<pdfViewer, locked, startCoords, endCoords, startRef,
                           lockedRef, disabledSelection, upHandlers, emitted,
                           mouseSelectionInProgress>>
            /\ UNCHANGED <<scale, coordVars>>
            /\ UNCHANGED <<positioner, listeners, pageViews, scrollId, loader>>

\* the hover timer fires (lines 196-198)
HoverFire ==
    /\ timers.hover # Null
    /\ CommitHighlighter(onChangeHighlight(HighlighterState,
                                           timers.hover.viewportHighlight.position,
                                           timers.hover.viewportHighlight))
    /\ timers' = [timers EXCEPT !.hover = Null]
    /\ UNCHANGED mouseVars
    /\ UNCHANGED <<scale, coordVars>>
    /\ UNCHANGED <<positioner, listeners, pageViews, scrollId, loader>>

\* a press in the container while the application enables no area selection
PressWithoutAreaSelection ==
    /\ MouseDown
    /\ ~ev'.enabled
    /\ ev'.point = [x |-> Px(10), y |-> Px(10)]

NextTimers ==
    \/ SelectionChangeEvent
    \/ Elapse
    \/ DebounceFire
    \/ MouseOverHighlightLayer
    \/ HoverFire
    \/ KeyDown
    \/ PressWithoutAreaSelection
    \/ OnShow
    \/ OnHide

SpecTimers == InitTimers /\ [][NextTimers]_vars

----------------------------------------------------------------------------
\* Activation and teardown: the listeners of Highlighter.tsx and MouseSelection.tsx

\* Highlighter.tsx lines 249-252, added by the effect once the viewer is set
HighlighterListeners ==
    { "container:pointerdown", "eventBus:textlayerrendered",
      "document:keydown", "document:selectionchange" }

\* MouseSelection.tsx lines 154-155
MouseSelectionListeners == { "container:mousemove", "container:mousedown" }

\* Highlighter.tsx lines 253-264 and MouseSelection.tsx lines 156-159: the
\* cleanups of the two effects; neither touches the listeners on the body
teardown(l) ==
    [ mounted |-> FALSE,
      registered |-> (l.registered \ HighlighterListeners) \ MouseSelectionListeners ]

\* the components are mounted with the viewer set and their effects have run
InitTeardown ==
    /\ InitViewerReady
    /\ InitGroupIdle
    /\ InitHighlighter
    /\ InitCoordsIdle
    /\ listeners = [ mounted |-> TRUE,
                     registered |-> HighlighterListeners \cup MouseSelectionListeners ]
    /\ positioner = Null
    /\ timers = Null
    /\ pageViews = Null
    /\ InitLoaderIdle

\* the Highlighter is unmounted: the cleanups run and the state cells go
Unmount ==
    /\ listeners.mounted
    /\ listeners' = teardown(listeners)
    /\ locked' = FALSE
    /\ startCoords' = Null
    /\ endCoords' = Null
    /\ startRef' = Null
    /\ lockedRef' = FALSE
    /\ emitted' = << >>
    /\ mouseSelectionInProgress' = FALSE
    /\ ev' = OtherEvent("unmount", Collapsed)
    /\ CommitHighlighter([ viewportPosition |-> Null, highlight |-> Null,
                           ghostHighlight |-> Null, selectionIsCollapsed |-> TRUE ])
    /\ UNCHANGED <<pdfViewer, disabledSelection, upHandlers, scale>>
    /\ UNCHANGED coordVars
    /\ UNCHANGED <<positioner, timers, pageViews, scrollId, loader>>

\* "mouseup" reaching document.body after the teardown: every listener left
\* there runs and removes itself (line 120); its state updates reach no component
MouseUpAfterTeardown ==
    /\ ~listeners.mounted
    /\ upHandlers # << >>
    /\ \E target \in TargetsPresent(pdfViewer), pp \in PagePoints :
           ev' = [Event("mouseup", target, pp.pageX, pp.pageY, FALSE) EXCEPT
                      !.phase = "Idle", !.anchor = Null]
    /\ upHandlers' = << >>
    /\ UNCHANGED <<pdfViewer, locked, startCoords, endCoords, startRef, lockedRef,
                   disabledSelection, emitted, mouseSelectionInProgress>>
    /\ UNCHANGED <<groupVars, highlighterVars, coordVars, auxVars>>

NextTeardown ==
    \/ ("container:mousedown" \in listeners.registered /\ MouseDown)
    \/ ("container:mousemove" \in listeners.registered /\ MouseMove)
    \/ (listeners.mounted /\ MouseUp)
    \/ Unmount
    \/ MouseUpAfterTeardown

SpecTeardown == InitTeardown /\ [][NextTeardown]_vars

----------------------------------------------------------------------------
\* Pages without a page view: HighlightLayers.tsx, Highlighter.tsx, Positioner.tsx

\* what evaluating a property of undefined does
TypeError == [error |-> "TypeError"]

\* Context.tsx lines 120-122, viewer.getPageView(index): the view of a page
\* the viewer has laid out, else undefined
getPageView(laidOut, viewer, index) ==
    IF index + 1 \in laidOut
    THEN [ viewport |-> getPageViewport(viewer, index + 1), textLayer |-> TRUE ]
    ELSE Null

\* HighlightLayers.tsx lines 37-47
findPortalContainer(laidOut, viewer, page) ==
    LET pageView == getPageView(laidOut, viewer, page - 1) IN
    IF pageView = Null \/ ~pageView.textLayer THEN Null
    ELSE [layerRoot |-> page]

\* HighlightLayers.tsx lines 51-75: per page of the document the layers
\* rendered into its container, or null
renderLayers(laidOut, viewer, pageHighlights) ==
    [ pageNumber \in Pages |->
        IF findPortalContainer(laidOut, viewer, pageNumber) = Null THEN Null
        ELSE IF pageNumber \notin DOMAIN pageHighlights THEN Null
        ELSE IF pageHighlights[pageNumber] = << >> THEN Null
        ELSE [ k \in 1..Len(pageHighlights[pageNumber]) |->
                 LET current == pageHighlights[pageNumber][k] IN
                 IF getPageView(laidOut, viewer, current.position.pageNumber - 1) = Null
                 THEN TypeError
                 ELSE [ current EXCEPT
                          !.position = scaledPositionToViewport(viewer, @) ] ] ]

\* Highlighter.tsx lines 268-284 with Context.tsx lines 145-157: the page and
\* the viewport offset handed to scrollPageIntoView
scrollTo(laidOut, viewer, highlight) ==
    LET position == highlight.position
        pageNumber == position.pageNumber
    IN  IF getPageView(laidOut, viewer, pageNumber - 1) = Null THEN TypeError
        ELSE LET viewporPosition ==
                     scaledToViewport(viewer, pageNumber, position.boundingRect,
                                      position.usePdfCoordinates)
             IN  [ pageNumber |-> pageNumber,
                   top |-> viewporPosition.top - Px(10),
                   scrollId |-> highlight.id ]

\* Highlighter.tsx lines 293-297: the colour of the layers of a highlight
backgroundColor(marker, id) ==
    IF id = marker THEN "layerScrolledToBackgroundColor" ELSE "layerBackgroundColor"

\* Positioner.tsx lines 130-134 and on: the style needs the div of the page view
positionedStyle(laidOut, viewer, position, width, height, scrollTop) ==
    LET pageNumber == IF Truthy(position.boundingRect.pageNumber)
                      THEN position.boundingRect.pageNumber
                      ELSE position.pageNumber
    IN  IF getPageView(laidOut, viewer, pageNumber - 1) = Null THEN TypeError
        ELSE style(viewer, position, width, height, scrollTop)

\* the viewer has laid out some of the pages; props.highlights are given
InitPages ==
    /\ InitViewerReady
    /\ highlights \in PersistedHighlights
    /\ ghostHighlight = Null
    /\ grouped = groupHighlightsByPage(highlights, Null)
    /\ groupedKeys = groupedKeysOf(highlights, Null)
    /\ InitHighlighter
    /\ InitCoordsIdle
    /\ \E laidOut \in SUBSET Pages :
           pageViews = [ laidOut |-> laidOut, operation |-> "none", page |-> NoPage,
                         argument |-> Null, result |-> Null ]
    /\ positioner = Null
    /\ timers = Null
    /\ listeners = Null
    /\ InitLoaderIdle

\* the viewer lays out one more page
LayOutPage ==
    /\ \E p \in Pages \ pageViews.laidOut :
           pageViews' = [pageViews EXCEPT !.laidOut = @ \cup {p}]
    /\ UNCHANGED <<mouseVars, groupVars, highlighterVars, coordVars>>
    /\ UNCHANGED <<positioner, timers, listeners, scrollId, loader>>

\* HighlightLayers renders
RenderLayers ==
    /\ pageViews' = [pageViews EXCEPT
           !.operation = "render", !.page = NoPage, !.argument = Null,
           !.result = renderLayers(pageViews.laidOut, Viewer, grouped)]
    /\ UNCHANGED <<mouseVars, groupVars, highlighterVars, coordVars>>
    /\ UNCHANGED <<positioner, timers, listeners, scrollId, loader>>

\* the application calls ref.scrollTo with one of its highlights; setScrollId
\* is the last statement (line 283), not reached when a statement before throws
ScrollTo ==
    /\ \E k \in 1..Len(highlights) :
           LET result == scrollTo(pageViews.laidOut, Viewer, highlights[k])
           IN  /\ pageViews' = [pageViews EXCEPT
                      !.operation = "scrollTo",
                      !.page = highlights[k].position.pageNumber,
                      !.argument = highlights[k],
                      !.result = result]
               /\ scrollId' = IF result = TypeError THEN scrollId ELSE result.scrollId
    /\ UNCHANGED <<mouseVars, groupVars, highlighterVars, coordVars>>
    /\ UNCHANGED <<positioner, timers, listeners, loader>>

\* the Positioner renders with the position of a highlight on some page
PositionPopup ==
    /\ \E position \in Anchors(scale), scrollTop \in ScrollTops :
           pageViews' = [pageViews EXCEPT
               !.operation = "position",
               !.page = position.pageNumber,
               !.argument = Null,
               !.result = positionedStyle(pageViews.laidOut, Viewer, position,
                                          0, 0, scrollTop)]
    /\ UNCHANGED <<mouseVars, groupVars, highlighterVars, coordVars>>
    /\ UNCHANGED <<positioner, timers, listeners, scrollId, loader>>

\* an area selection ends whose start element maps to no page
SelectOffPage ==
    /\ \E element \in { t \in Targets : TargetInfo[t].html /\ TargetInfo[t].page = NoPage } :
           LET st == onMouseSelection(HighlighterState, Viewer, element,
                                      [left |-> Px(10), top |-> Px(10),
                                       width |-> Px(40), height |-> Px(40)])
           IN  /\ CommitHighlighter(st)
               /\ pageViews' = [pageViews EXCEPT
                      !.operation = "select", !.page = NoPage, !.argument = Null,
                      !.result = st.highlight]
    /\ UNCHANGED mouseVars
    /\ UNCHANGED <<scale, coordVars>>
    /\ UNCHANGED <<positioner, timers, listeners, scrollId, loader>>

NextPages == LayOutPage \/ RenderLayers \/ ScrollTo \/ PositionPopup \/ SelectOffPage

SpecPages == InitPages /\ [][NextPages]_vars

----------------------------------------------------------------------------
\* HighlightLayer.tsx: the document loader

\* the sources props.url names, one after the other
Urls == {"a.pdf", "b.pdf"}

\* useState({ loaded: 0, total: 0 })
NoProgress == [loaded |-> 0, total |-> 0]

\* the progress events pdf.js delivers to task.onProgress: nothing known yet,
\* half of the bytes, all of the bytes
ProgressEvents == { NoProgress, [loaded |-> 1, total |-> 2], [loaded |-> 2, total |-> 2] }

\* the PDFDocumentProxy a loading task resolves with
Document(task) == [url |-> task.url, load |-> task.load]

\* lines 161-164 (reset of the loader)
resetLoader(l) == [l EXCEPT !.error = Null, !.pdfDocument = Null]

\* line 171: pdfDocument?.destroy(), pdfDocument being the value of the
\* render whose closure makes the call
destroy(l, pdfDocument) ==
    IF pdfDocument = Null THEN l ELSE [l EXCEPT !.destroyed = @ \cup {pdfDocument}]

\* lines 172-178
onLoading(l, progress, pdfDocument) ==
    [ (IF pdfDocument # Null THEN [l EXCEPT !.pdfDocument = pdfDocument] ELSE l)
        EXCEPT !.progress = progress ]

\* lines 233-254: getDocument(props) starts a loading task for props.url;
\* nothing keeps the task of an earlier call from reporting
loadingTask(l) ==
    [l EXCEPT !.load = @ + 1,
              !.tasks = @ \cup {[load |-> l.load + 1, url |-> l.url,
                                 stage |-> "loading", progress |-> NoProgress]}]

\* lines 180-183
load(l) == loadingTask(resetLoader(l))

\* lines 185-191, run after the first render and after a render with another
\* url: the cleanup the effect returned last time, then the body; destroy is
\* the closure of the render that scheduled the effect, and .effectDocument
\* keeps the pdfDocument the returned cleanup will see
urlEffect(l) ==
    [ load(destroy(destroy(l, l.effectDocument), l.pdfDocument))
        EXCEPT !.effectDocument = l.pdfDocument ]

\* the cleanup of the effect at unmount
unmountCleanup(l) == destroy(l, l.effectDocument)

\* lines 245-252: task.onProgress; the last event waits for task.promise
onProgress(l, task, progress) ==
    IF progress.total = 0 /\ progress.loaded = 0 THEN l
    ELSE IF progress.loaded = progress.total
    THEN [l EXCEPT !.tasks = (@ \ {task}) \cup
                       {[task EXCEPT !.stage = "awaiting", !.progress = progress]}]
    ELSE onLoading(l, progress, Null)

\* lines 247-248: task.promise has resolved
onResolved(l, task) ==
    onLoading([l EXCEPT !.tasks = @ \ {task}], task.progress, Document(task))

\* lines 213-227 (_children): what the loader renders
children(l) ==
    IF l.error # Null THEN [element |-> "errorMessage", error |-> l.error]
    ELSE IF \/ (l.progress.loaded = 0 /\ l.progress.total = 0)
            \/ l.progress.loaded # l.progress.total
    THEN [element |-> "beforeLoaded", progress |-> l.progress]
    ELSE [element |-> "children", pdfDocument |-> l.pdfDocument]

\* a render of the loader; .operation tells the step that led to it
renderLoader(l, operation) ==
    [l EXCEPT !.rendered = children(l), !.operation = operation]

\* the loader mounted with a url: the first render and its effect
InitLoader ==
    /\ InitMouse
    /\ InitGroupIdle
    /\ InitHighlighter
    /\ InitCoordsIdle
    /\ positioner = Null
    /\ timers = Null
    /\ listeners = Null
    /\ pageViews = Null
    /\ scrollId = EMPTY_SCROLL_ID
    /\ \E url \in Urls :
           loader = renderLoader(urlEffect(
                        [ mounted |-> TRUE, url |-> url, load |-> 0,
                          pdfDocument |-> Null, error |-> Null,
                          progress |-> NoProgress, effectDocument |-> Null,
                          tasks |-> {}, destroyed |-> {}, failed |-> {},
                          onErrorCalls |-> 0, rendered |-> Null,
                          operation |-> Null ]),
                        [kind |-> "mount", load |-> 1, pdfDocument |-> Null,
                         wrote |-> FALSE])

LoaderIdleElsewhere ==
    /\ UNCHANGED <<mouseVars, groupVars, highlighterVars, coordVars>>
    /\ UNCHANGED <<positioner, timers, listeners, pageViews, scrollId>>

\* pdf.js reports progress of a loading task, the current one or an earlier
Progress ==
    /\ loader.mounted
    /\ \E task \in loader.tasks, progress \in ProgressEvents :
           /\ task.stage = "loading"
           /\ loader' = renderLoader(onProgress(loader, task, progress),
                            [kind |-> "progress", load |-> task.load,
                             pdfDocument |-> loader.pdfDocument,
                             wrote |-> (progress # NoProgress
                                        /\ progress.loaded # progress.total)])
    /\ LoaderIdleElsewhere

\* the promise of a task that reported all of its bytes resolves
Resolve ==
    /\ loader.mounted
    /\ \E task \in loader.tasks :
           /\ task.stage = "awaiting"
           /\ loader' = renderLoader(onResolved(loader, task),
                            [kind |-> "resolve", load |-> task.load,
                             pdfDocument |-> loader.pdfDocument, wrote |-> TRUE])
    /\ LoaderIdleElsewhere

\* the promise of a task rejects (the file is missing or is no PDF): no
\* handler of the loader is attached to the rejection
Reject ==
    /\ loader.mounted
    /\ \E task \in loader.tasks :
           loader' = renderLoader([loader EXCEPT !.tasks = @ \ {task},
                                                 !.failed = @ \cup {task.load}],
                         [kind |-> "reject", load |-> task.load,
                          pdfDocument |-> loader.pdfDocument, wrote |-> FALSE])
    /\ LoaderIdleElsewhere

\* the parent renders the loader with another url
SetUrl ==
    /\ loader.mounted
    /\ loader.load < MaxLoads
    /\ \E url \in Urls \ {loader.url} :
           loader' = renderLoader(urlEffect([loader EXCEPT !.url = url]),
                         [kind |-> "url", load |-> loader.load + 1,
                          pdfDocument |-> loader.pdfDocument, wrote |-> FALSE])
    /\ LoaderIdleElsewhere

\* the loader unmounts
UnmountLoader ==
    /\ loader.mounted
    /\ loader' = [unmountCleanup(loader) EXCEPT
                      !.mounted = FALSE,
                      !.operation = [kind |-> "unmount", load |-> loader.load,
                                     pdfDocument |-> loader.pdfDocument,
                                     wrote |-> FALSE]]
    /\ LoaderIdleElsewhere

NextLoader == Progress \/ Resolve \/ Reject \/ SetUrl \/ UnmountLoader

SpecLoader == InitLoader /\ [][NextLoader]_vars

----------------------------------------------------------------------------
\* Properties of the area-selection machine (specification Spec)

\* the rectangle spanned by two points, corner order normalised
NormalizedRect(a, b) ==
    [ left   |-> IF a.x <= b.x THEN a.x ELSE b.x,
      top    |-> IF a.y <= b.y THEN a.y ELSE b.y,
      width  |-> IF a.x <= b.x THEN b.x - a.x ELSE a.x - b.x,
      height |-> IF a.y <= b.y THEN b.y - a.y ELSE a.y - b.y ]

\* the rectangle from the anchor the event met to the event's point
ReleaseRect == NormalizedRect(ev.anchor, ev.point)

\* the minimum size of a drag that finalizes: one pixel each way
MeetsMinimumSize(r) == r.width >= Px(1) /\ r.height >= Px(1)

\* the mouseup met a drag in progress
UpWhileDragging == ev.type = "mouseup" /\ ev.phase = "Dragging"

\* the release target is an HTML element inside the container
ReleaseInside == TargetInfo[ev.target].html /\ TargetInfo[ev.target].inContainer

\* the target of the mousedown that began the drag the event met
DragStartTarget == ev.handlers[Len(ev.handlers)]

\* C1: a pointerUp while Dragging, released inside the container with a
\* rectangle of at least 1x1, locks the machine on that rectangle and emits
\* exactly one selection: the displayed rectangle, with the start target of
\* the pointerDown that began the drag.
C1_FinalizeEmitsOne ==
    (UpWhileDragging /\ ReleaseInside /\ MeetsMinimumSize(ReleaseRect)) =>
        /\ Phase = "Locked"
        /\ computeStyle = ReleaseRect
        /\ Len(emitted) = 1
        /\ emitted[1].boundingRect = computeStyle
        /\ emitted[1].startTarget = DragStartTarget

\* C2: a pointerUp while Dragging whose rectangle is narrower or lower than
\* one pixel, or whose target is outside the container, emits nothing, clears
\* anchor, end point and lock, and leaves the machine Idle.
C2_DegenerateDragDiscarded ==
    (UpWhileDragging /\ (~MeetsMinimumSize(ReleaseRect) \/ ~TargetInfo[ev.target].inContainer)) =>
        /\ emitted = << >>
        /\ startCoords = Null
        /\ endCoords = Null
        /\ ~locked
        /\ Phase = "Idle"

C2_SubPixelDragDiscarded ==
    /\ UpWhileDragging
    /\ ReleaseInside
    /\ ReleaseRect.width > 0
    /\ ReleaseRect.width < Px(1)
    /\ ReleaseRect.height >= Px(1)
    /\ Phase = "Idle"
    /\ emitted = << >>

\* C3: a single pointerUp emits at most one selection, and that selection
\* carries the start target and the anchor of the most recent pointerDown,
\* whatever pointerDowns came before it.
C3_OneActiveDrag ==
    ev.type = "mouseup" =>
        /\ Len(emitted) <= 1
        /\ \A i \in 1..Len(emitted) :
              /\ emitted[i].startTarget = DragStartTarget
              /\ emitted[i].boundingRect = ReleaseRect

\* C4: a pointerDown leaves an anchor and the machine Dragging only if the
\* caller's predicate accepted the event and the target lies in a page;
\* otherwise there is no anchor, the machine is Idle and text selection is
\* not suppressed.
C4_DragStartGuarded ==
    ev.type = "mousedown" =>
        IF ev.enabled /\ TargetInfo[ev.target].html /\ TargetInfo[ev.target].page # NoPage
        THEN TRUE
        ELSE /\ startCoords = Null
             /\ Phase = "Idle"
             /\ ~disabledSelection

C4_RejectedOutsidePage ==
    /\ ev.type = "mousedown"
    /\ ev.enabled
    /\ TargetInfo[ev.target].page = NoPage
    /\ ev.phase = "Locked"
    /\ Phase = "Idle"
    /\ startCoords = Null
    /\ ~disabledSelection

\* C5: a pointerDown while Locked clears end point and lock, and ends in
\* Dragging on the new anchor when accepted and in Idle otherwise; the
\* frozen rectangle is no longer displayed.
C5_DownWhileLockedRestarts ==
    (ev.type = "mousedown" /\ ev.phase = "Locked") =>
        /\ endCoords = Null
        /\ ~locked
        /\ computeStyle = Null
        /\ IF ev.enabled /\ TargetInfo[ev.target].html /\ TargetInfo[ev.target].page # NoPage
           THEN Phase = "Dragging" /\ startCoords = ev.point
           ELSE Phase = "Idle" /\ startCoords = Null

C5_RestartedFromLocked ==
    /\ ev.type = "mousedown"
    /\ ev.phase = "Locked"
    /\ Phase = "Dragging"
    /\ startCoords = ev.point
    /\ ev.anchor # ev.point
    /\ endCoords = Null

\* C6: a pointerMove while Dragging changes the current point only (the
\* displayed rectangle becomes the one from the anchor to that point) and
\* emits nothing; a pointerMove while Idle or Locked changes nothing.
C6_MoveIsVisualOnly ==
    [][ MouseMove =>
          /\ startCoords' = startCoords
          /\ locked' = locked
          /\ disabledSelection' = disabledSelection
          /\ upHandlers' = upHandlers
          /\ emitted' = << >>
          /\ IF Phase = "Dragging"
             THEN /\ endCoords' = ev'.point
                  /\ computeStyle' = NormalizedRect(startCoords, ev'.point)
             ELSE endCoords' = endCoords ]_vars

C6_MovedWhileDragging ==
    /\ ev.type = "mousemove"
    /\ ev.phase = "Dragging"
    /\ Phase = "Dragging"
    /\ startCoords = ev.anchor
    /\ endCoords = ev.point
    /\ ev.point # ev.anchor

\* C7 as stated: whenever the machine is Dragging or Locked, text selection
\* is suppressed.
C7_SuppressedWhileDraggingOrLocked ==
    Phase \in {"Dragging", "Locked"} => disabledSelection

\* C7 as amended: whenever the machine is Dragging, text selection is
\* suppressed; the pointerUp that locks the rectangle restores it, so it is
\* not suppressed while Locked.
C7_SuppressedWhileDragging ==
    /\ Phase = "Dragging" => disabledSelection
    /\ Phase = "Locked" => ~disabledSelection

C7_DraggingSuppressed ==
    /\ Phase = "Dragging"
    /\ disabledSelection
    /\ endCoords # Null

\* C8: whenever the machine is Idle, text selection is not suppressed.
C8_RestoredWhenIdle ==
    Phase = "Idle" => ~disabledSelection

C8_IdleAfterRejectedDown ==
    /\ ev.type = "mousedown"
    /\ ev.phase = "Dragging"
    /\ Phase = "Idle"
    /\ ~disabledSelection

\* C9: the drag rectangle is the corner-normalised rectangle of anchor and
\* current point, the same for either order of the two points, with
\* non-negative width and height; from (50,50) to (10,10) it is
\* {left 10, top 10, width 40, height 40}.
C9_CornerNormalization ==
    (startCoords # Null /\ endCoords # Null) =>
        /\ computeStyle = NormalizedRect(startCoords, endCoords)
        /\ computeStyle = getBoundingRect(endCoords, startCoords)
        /\ computeStyle.width >= 0
        /\ computeStyle.height >= 0
        /\ (startCoords = [x |-> Px(50), y |-> Px(50)] /\ endCoords = [x |-> Px(10), y |-> Px(10)])
              => computeStyle = [left |-> Px(10), top |-> Px(10), width |-> Px(40), height |-> Px(40)]
        /\ \A i \in 1..Len(emitted) : emitted[i].boundingRect = NormalizedRect(startCoords, endCoords)

C9_DragUpLeft ==
    /\ startCoords = [x |-> Px(50), y |-> Px(50)]
    /\ endCoords = [x |-> Px(10), y |-> Px(10)]
    /\ locked
    /\ Len(emitted) >= 1
    /\ emitted[1].boundingRect =
           [left |-> Px(10), top |-> Px(10), width |-> Px(40), height |-> Px(40)]

----------------------------------------------------------------------------
\* Properties of the grouping (specification SpecGroup)

\* the working set: the entries of props.highlights and the ghost, nulls dropped
WorkingSet == { h \in Range(highlights) \cup {ghostHighlight} : h # Null }

\* the pages a highlight touches: its own and those its rects are tagged with
Touches(h) ==
    ({ h.position.pageNumber } \cup
     { h.position.rects[k].pageNumber : k \in 1..Len(h.position.rects) }) \ { NoPage }

\* how many entries of the list of page p stem from highlight h
EmittedUnder(h, p) ==
    IF p \in DOMAIN grouped
    THEN Cardinality({ k \in 1..Len(grouped[p]) : grouped[p][k].id = h.id })
    ELSE 0

\* C10: every highlight of the working set is emitted under page p once if p
\* is a page it touches and not at all otherwise; every emitted entry stems
\* from the working set; an image highlight appears under its own page only.
C10_GroupedUnderTouchedPages ==
    /\ DOMAIN grouped \subseteq Pages
    /\ \A h \in WorkingSet : \A p \in Pages :
           EmittedUnder(h, p) = IF p \in Touches(h) THEN 1 ELSE 0
    /\ \A p \in DOMAIN grouped : \A k \in 1..Len(grouped[p]) :
           /\ grouped[p][k] # Null
           /\ \E h \in WorkingSet : h.id = grouped[p][k].id
    /\ \A h \in WorkingSet :
           h.position.rects = << >> =>
               { p \in Pages : EmittedUnder(h, p) > 0 } = { h.position.pageNumber }

C10_ImageAndMultiPageGrouped ==
    /\ \E i \in 1..Len(highlights) : highlights[i] = Null
    /\ ghostHighlight # Null
    /\ ghostHighlight.position.rects = << >>
    /\ EmittedUnder(ghostHighlight, ghostHighlight.position.pageNumber) = 1
    /\ \E h \in WorkingSet :
           /\ h.id # NoId
           /\ Cardinality(Touches(h)) = 2
           /\ \A p \in Touches(h) : EmittedUnder(h, p) = 1
           /\ ghostHighlight.position.pageNumber \notin Touches(h)

\* the page a rect of highlight h lies on: its own tag, else the page of h
RectPage(h, rect) ==
    IF rect.pageNumber # NoPage THEN rect.pageNumber ELSE h.position.pageNumber

\* the rects of h that lie on page p, in their order in h
RectsLyingOn(h, p) ==
    SelectSeq(h.position.rects, LAMBDA rect : RectPage(h, rect) = p)

\* the working set in input order: persisted highlights, then the ghost
InputOrder ==
    SelectSeq(highlights \o << ghostHighlight >>, LAMBDA h : h # Null)

\* the highlights page p's list stems from, in input order
Sources(p) == SelectSeq(InputOrder, LAMBDA h : p \in Touches(h))

\* C11: the page-scoped copies of a highlight partition its rects: the copy
\* under page p holds exactly the rects lying on p (the rect's own page
\* number, else the highlight's), in their original order, and every rect
\* lies on a page that has a copy; none is dropped or duplicated.
C11_RectsPartitioned ==
    \A p \in Pages :
        /\ p \in DOMAIN grouped => Len(grouped[p]) = Len(Sources(p))
        /\ \A k \in 1..Len(Sources(p)) :
               /\ p \in DOMAIN grouped
               /\ k <= Len(grouped[p])
               /\ grouped[p][k].position.rects = RectsLyingOn(Sources(p)[k], p)
        /\ \A h \in WorkingSet : \A k \in 1..Len(h.position.rects) :
               RectPage(h, h.position.rects[k]) = p => p \in DOMAIN grouped

C11_RectsSplitOverTwoPages ==
    \E h \in WorkingSet : \E p \in Pages :
        /\ h.id # NoId
        /\ h.position.pageNumber = p
        /\ Len(h.position.rects) = 2
        /\ h.position.rects[1].pageNumber = p + 1
        /\ h.position.rects[2].pageNumber = NoPage
        /\ \E k \in 1..Len(grouped[p]) :
               grouped[p][k].position.rects = << h.position.rects[2] >>
        /\ \E k \in 1..Len(grouped[p + 1]) :
               grouped[p + 1][k].position.rects = << h.position.rects[1] >>

\* C12: the pages of the grouping are enumerated in ascending order, whatever
\* the order the highlights first touched them in, and the list of each page
\* holds its highlights in input order, the transient one after every
\* persisted one.
C12_OrderStable ==
    /\ Range(groupedKeys) = DOMAIN grouped
    /\ \A i, j \in 1..Len(groupedKeys) : i < j => groupedKeys[i] < groupedKeys[j]
    /\ \A p \in DOMAIN grouped :
           /\ Len(grouped[p]) = Len(Sources(p))
           /\ \A k \in 1..Len(grouped[p]) : grouped[p][k].id = Sources(p)[k].id
           /\ \A k \in 1..Len(grouped[p]) :
                  grouped[p][k].id = NoId => k = Len(grouped[p])

C12_LaterPageTouchedFirst ==
    /\ Len(highlights) = 2
    /\ highlights[1] # Null
    /\ highlights[2] # Null
    /\ highlights[1].position.pageNumber = 2
    /\ highlights[2].position.pageNumber = 1
    /\ ghostHighlight # Null
    /\ ghostHighlight.position.pageNumber = 2
    /\ groupedKeys = << 1, 2 >>
    /\ Len(grouped[2]) = 2
    /\ grouped[2][1].id = highlights[1].id
    /\ grouped[2][2].id = NoId

\* C13: every page-scoped highlight is a copy of its original: its
\* boundingRect is the original's, unsliced, and its usePdfCoordinates, id,
\* type, content and comment are the original's; the persisted highlights
\* and the transient one are the same objects after the grouping.
C13_CopyKeepsOriginalFields ==
    \A p \in DOMAIN grouped :
        /\ Len(grouped[p]) = Len(Sources(p))
        /\ \A k \in 1..Len(grouped[p]) :
               LET copy == grouped[p][k]
                   original == Sources(p)[k]
               IN  /\ copy.position.boundingRect = original.position.boundingRect
                   /\ copy.position.usePdfCoordinates = original.position.usePdfCoordinates
                   /\ copy.position.pageNumber = p
                   /\ copy.id = original.id
                   /\ copy.type = original.type
                   /\ copy.content = original.content
                   /\ copy.comment = original.comment
                   /\ original \in WorkingSet

C13_CopyOfMultiPageText ==
    \E h \in WorkingSet : \E p \in DOMAIN grouped : \E k \in 1..Len(grouped[p]) :
        /\ h.type = "text"
        /\ h.position.usePdfCoordinates
        /\ p # h.position.pageNumber
        /\ grouped[p][k].id = h.id
        /\ grouped[p][k].position.rects # << >>
        /\ grouped[p][k].position.rects # h.position.rects
        /\ grouped[p][k].position.boundingRect = h.position.boundingRect
        /\ grouped[p][k].comment = h.comment

----------------------------------------------------------------------------
\* Properties of the coordinate helpers (specification SpecCoords)

\* a position went to scaled form and back under one and the same viewport
RoundTripped == coords.viewport # Null /\ coords.renderScale = coords.captureScale

\* the viewport position that came back is the one that went in
BackUnchanged ==
    /\ coords.viewport.boundingRect = coords.position.boundingRect
    /\ Len(coords.viewport.rects) = Len(coords.position.rects)
    /\ \A k \in 1..Len(coords.position.rects) :
           coords.viewport.rects[k] = coords.position.rects[k]
    /\ coords.viewport.pageNumber = coords.position.pageNumber

\* C18 as stated: the round trip scaledToViewport(viewportToScaled(r, v), v,
\* usePdfCoordinates) gives r back for both values of usePdfCoordinates.
C18_RoundTripBothSettings == RoundTripped => BackUnchanged

\* C18: the round trip scaledToViewport(viewportToScaled(r, v), v,
\* usePdfCoordinates) gives r back when usePdfCoordinates is false.
C18_RoundTripScreenCoordinates ==
    (RoundTripped /\ ~coords.usePdfCoordinates) => BackUnchanged

C18_RoundTrippedAtZoomTwo ==
    /\ RoundTripped
    /\ ~coords.usePdfCoordinates
    /\ coords.captureScale = 2
    /\ coords.position.pageNumber = 2
    /\ Len(coords.position.rects) = 2
    /\ coords.position.rects[2].pageNumber = 3
    /\ BackUnchanged

\* C19: in the non-PDF branch, with the rendered page k times as large at
\* render as at capture, every field of the output rect is k times the
\* captured rect's; from zoom 1 to zoom 2 the output is exactly the double.
C19_ZoomScalesOutput ==
    (coords.rect # Null /\ ~coords.usePdfCoordinates) =>
        LET captured == coords.position.boundingRect
            out == coords.rect
        IN  /\ out.left * coords.captureScale = captured.left * coords.renderScale
            /\ out.top * coords.captureScale = captured.top * coords.renderScale
            /\ out.width * coords.captureScale = captured.width * coords.renderScale
            /\ out.height * coords.captureScale = captured.height * coords.renderScale
            /\ (coords.captureScale = 1 /\ coords.renderScale = 2) =>
                   /\ out.left = 2 * captured.left
                   /\ out.top = 2 * captured.top
                   /\ out.width = 2 * captured.width
                   /\ out.height = 2 * captured.height

C19_RenderedAtTwiceTheZoom ==
    /\ coords.rect # Null
    /\ ~coords.usePdfCoordinates
    /\ coords.captureScale = 1
    /\ coords.renderScale = 2
    /\ coords.position.boundingRect = LTWHP(Px(10), Px(10), Px(40), Px(40), 1)
    /\ coords.rect = LTWHP(Px(20), Px(20), Px(80), Px(80), 1)

\* the scaled rects of the stored position, each with the rect it came from
ProducedRects ==
    { [scaled |-> coords.scaled.boundingRect, from |-> coords.position.boundingRect] }
    \cup { [scaled |-> coords.scaled.rects[k], from |-> coords.position.rects[k]] :
               k \in 1..Len(coords.position.rects) }

\* C20 as stated: every ScaledRect produced by viewportToScaled satisfies
\* x2 - x1 = width and y2 - y1 = height.
C20_CornersSpanStoredSize ==
    coords.scaled # Null =>
        \A pr \in ProducedRects :
            /\ pr.scaled.x2 - pr.scaled.x1 = pr.scaled.width
            /\ pr.scaled.y2 - pr.scaled.y1 = pr.scaled.height

\* C20: every ScaledRect produced by viewportToScaled has the corners of the
\* viewport rect it came from, so x2 - x1 and y2 - y1 are that rect's width
\* and height, while its width and height fields are the rendered dimensions
\* of the position's page at capture.
C20_CornersSpanRectSizeOnly ==
    coords.scaled # Null =>
        \A pr \in ProducedRects :
            /\ pr.scaled.x1 = pr.from.left
            /\ pr.scaled.y1 = pr.from.top
            /\ pr.scaled.x2 - pr.scaled.x1 = pr.from.width
            /\ pr.scaled.y2 - pr.scaled.y1 = pr.from.height
            /\ pr.scaled.width =
                   coords.captureScale * PageSize(coords.position.pageNumber).width
            /\ pr.scaled.height =
                   coords.captureScale * PageSize(coords.position.pageNumber).height

C20_StoredOnLandscapePage ==
    /\ coords.scaled # Null
    /\ coords.position.pageNumber = 2
    /\ coords.captureScale = 2
    /\ Len(coords.scaled.rects) = 2
    /\ coords.scaled.boundingRect.width = Px(160)
    /\ coords.scaled.boundingRect.x2 - coords.scaled.boundingRect.x1 = Px(90)

\* C21: in both directions a rect that carries its own pageNumber is converted
\* with the viewport of that page: going to scaled space it stores the
\* rendered dimensions of its own page, and coming back it is the stored rect
\* taken through the current viewport of its own page.
C21_RectConvertedOnOwnPage ==
    /\ coords.scaled # Null =>
           \A k \in 1..Len(coords.position.rects) :
               LET from == coords.position.rects[k] IN
               from.pageNumber # NoPage =>
                   coords.scaled.rects[k] =
                       libViewportToScaled(from,
                           getPageViewport(ViewerAt(coords.captureScale), from.pageNumber))
    /\ coords.viewport # Null =>
           \A k \in 1..Len(coords.scaled.rects) :
               LET stored == coords.scaled.rects[k] IN
               stored.pageNumber # NoPage =>
                   coords.viewport.rects[k] =
                       libScaledToViewport(stored,
                           getPageViewport(ViewerAt(coords.renderScale), stored.pageNumber),
                           coords.usePdfCoordinates)

----------------------------------------------------------------------------
\* Properties of the Positioner (specification SpecPositioner)

\* the page the popup is anchored on, and the anchor in container coordinates
AnchorPage ==
    IF positioner.position.boundingRect.pageNumber # NoPage
    THEN positioner.position.boundingRect.pageNumber
    ELSE positioner.position.pageNumber

AnchorTop ==
    positioner.position.boundingRect.top
        + offsetTop(ViewerAt(positioner.scale), AnchorPage)

AnchorBottom == AnchorTop + positioner.position.boundingRect.height

AnchorPageWidth == positioner.scale * PageSize(AnchorPage).width

\* C22: the popup's computed left is within [0, pageWidth - elementWidth]
\* for every anchor and every measured element width.
C22_LeftWithinPage ==
    positioner # Null =>
        /\ 0 <= positioner.style.left
        /\ positioner.style.left <= AnchorPageWidth - positioner.width

C24_HiddenUntilMeasured ==
    positioner # Null =>
        /\ (positioner.width = 0 /\ positioner.height = 0) =>
               positioner.style.visibility = "hidden"
        /\ positioner.timer => positioner.style.visibility = "hidden"
        /\ positioner.style.visibility = "visible" =>
               /\ ~positioner.timer
               /\ positioner.width = positioner.element.offsetWidth
               /\ positioner.height = positioner.element.offsetHeight
               /\ positioner.width # 0 \/ positioner.height # 0

C24_VisibleAfterMeasurement ==
    /\ positioner # Null
    /\ ~positioner.timer
    /\ positioner.width = Px(20)
    /\ positioner.style.visibility = "visible"

----------------------------------------------------------------------------
\* Properties of the timers of the Highlighter (specification SpecTimers)

\* the last user event was a cancel: Escape, or a press on an element of the container
Cancelled ==
    \/ ev.type = "keydown" /\ ev.code = "Escape"
    \/ /\ ev.type = "mousedown"
       /\ pdfViewer
       /\ TargetInfo[ev.target].html
       /\ ~TargetInfo[ev.target].popup

\* C25: after Escape or a press outside the popup, the current highlight,
\* its viewport position and the ghost highlight stay cleared until a later
\* user event sets them; no selection change or hover from before the cancel
\* sets them through its timer.
C25_CancelOutlivesTimers ==
    Cancelled =>
        /\ currentHighlight = Null
        /\ viewportPosition = Null
        /\ ghostHighlight = Null

\* C26: in a burst of selectionchange events less than the delay apart the
\* extraction runs once, when the delay has passed since the last event of
\* the burst, and not before.
C26_OneExtractionPerBurst ==
    timers.sinceLast # Null =>
        /\ timers.runs <= 1
        /\ timers.sinceLast.elapsed < DebounceWait => timers.runs = 0
        /\ (timers.sinceLast.elapsed = DebounceWait /\ timers.debounce = Null) =>
               timers.runs = 1

C26_BurstOfThreeExtractedOnce ==
    /\ timers.sinceLast # Null
    /\ timers.burst = 3
    /\ timers.sinceLast.elapsed = DebounceWait
    /\ timers.runs = 1
    /\ currentHighlight # Null
    /\ currentHighlight.type = "text"

----------------------------------------------------------------------------
\* Properties of the teardown (specification SpecTeardown)

\* C27: after the teardown no listener the components registered is left,
\* the body "mouseup" listener of a drag in progress included.
C27_NoListenerAfterTeardown ==
    ~listeners.mounted =>
        /\ listeners.registered = {}
        /\ upHandlers = << >>

----------------------------------------------------------------------------
\* Properties of pages without a view (specification SpecPages)

\* C28: no operation touching a page without a view throws: rendering skips
\* the page and renders the others, an area selection that maps to no page is
\* discarded, converting or positioning a highlight there gives an empty result.
C28_MissingPageNeverThrows ==
    /\ pageViews.result # TypeError
    /\ pageViews.operation = "render" =>
           \A p \in Pages :
               /\ p \notin pageViews.laidOut => pageViews.result[p] = Null
               /\ pageViews.result[p] # Null =>
                      \A k \in 1..Len(pageViews.result[p]) :
                          pageViews.result[p][k] # TypeError
    /\ pageViews.operation = "select" => pageViews.result = Null
    /\ (pageViews.operation \in {"scrollTo", "position"}
        /\ pageViews.page \notin pageViews.laidOut) => pageViews.result = Null

----------------------------------------------------------------------------
\* Properties of the Highlighter (specification SpecHighlighter)

\* the selectionchange met a range inside the container that touches pages
\* and has client rects
TextSelected ==
    /\ ev.type = "selectionchange"
    /\ ~ev.selection.isCollapsed
    /\ ev.selection.range.inContainer
    /\ ev.selection.range.pages # << >>
    /\ ev.selection.range.clientRects # << >>

\* C14: the draft of a text selection has as position.pageNumber the lowest
\* page the selection touches; once shown as the ghost, the grouping has
\* exactly the pages its rects lie on as keys: for rects on pages 2 and 3
\* the own pageNumber is 2 and the keys are {2, 3}.
C14_LowestPageOwnsDraft ==
    /\ TextSelected =>
           /\ currentHighlight # Null
           /\ currentHighlight.type = "text"
           /\ currentHighlight.position.pageNumber \in Range(ev.selection.range.pages)
           /\ \A p \in Range(ev.selection.range.pages) :
                  currentHighlight.position.pageNumber <= p
    /\ (ghostHighlight # Null /\ ghostHighlight.type = "text") =>
           /\ DOMAIN grouped =
                  { RectPage(ghostHighlight, ghostHighlight.position.rects[k]) :
                        k \in 1..Len(ghostHighlight.position.rects) }
           /\ ghostHighlight.position.pageNumber \in DOMAIN grouped
           /\ \A p \in DOMAIN grouped : ghostHighlight.position.pageNumber <= p

C14_PagesTwoAndThree ==
    /\ ghostHighlight # Null
    /\ ghostHighlight.type = "text"
    /\ Len(ghostHighlight.position.rects) = 2
    /\ ghostHighlight.position.rects[1].pageNumber = 2
    /\ ghostHighlight.position.rects[2].pageNumber = 3
    /\ ghostHighlight.position.pageNumber = 2
    /\ DOMAIN grouped = {2, 3}

\* the page of the element the drag started on
DragStartPage == TargetInfo[DragStartTarget].page

\* C15: a finalized area selection leaves a position whose boundingRect is
\* the drag rectangle moved by minus the offset, within the container, of the
\* page under the drag start point, width and height unchanged, whose rects
\* are empty and whose pageNumber is that page; content.image is the capture
\* of exactly that rectangle on that page.
C15_AreaPositionPageRelative ==
    (UpWhileDragging /\ ReleaseInside /\ MeetsMinimumSize(ReleaseRect)) =>
        /\ viewportPosition # Null
        /\ viewportPosition.boundingRect =
               [ left |-> ReleaseRect.left - offsetLeft(Viewer, DragStartPage),
                 top |-> ReleaseRect.top - offsetTop(Viewer, DragStartPage),
                 width |-> ReleaseRect.width,
                 height |-> ReleaseRect.height,
                 pageNumber |-> DragStartPage ]
        /\ viewportPosition.rects = << >>
        /\ viewportPosition.pageNumber = DragStartPage
        /\ currentHighlight.content.image.pageNumber = DragStartPage
        /\ \A f \in {"left", "top", "width", "height"} :
               currentHighlight.content.image[f] = viewportPosition.boundingRect[f]

C15_AreaDraggedOnPageOne ==
    /\ UpWhileDragging
    /\ scale = 1
    /\ DragStartPage = 1
    /\ ev.anchor = [x |-> Px(50), y |-> Px(50)]
    /\ ev.point = [x |-> Px(10), y |-> Px(10)]
    /\ viewportPosition # Null
    /\ viewportPosition.boundingRect = LTWHP(0, Px(10), Px(40), Px(40), 1)
    /\ currentHighlight.content.image.width = Px(40)

\* C16: every draft a selection leaves satisfies the highlight invariant and
\* is transient: a text draft has type "text", content.text and at least one
\* rect; an area draft has type "image", content.image and no rect; neither
\* has an id.
C16_DraftsWellFormed ==
    \A draft \in { currentHighlight, ghostHighlight } \ { Null } :
        /\ draft.id = NoId
        /\ \/ /\ draft.type = "text"
              /\ DOMAIN draft.content = {"text"}
              /\ draft.position.rects # << >>
           \/ /\ draft.type = "image"
              /\ DOMAIN draft.content = {"image"}
              /\ draft.content.image.dataUri = "data:image/png"
              /\ draft.position.rects = << >>

C16_TextDraftOverAreaGhost ==
    /\ currentHighlight # Null
    /\ currentHighlight.type = "text"
    /\ Len(currentHighlight.position.rects) = 2
    /\ ghostHighlight # Null
    /\ ghostHighlight.type = "image"
    /\ ghostHighlight.id = NoId

\* C17: no viewport position outlives a viewport change: at every zoom the
\* position of every rendered highlight layer and the position the popup is
\* anchored at are the scaled position of their highlight taken through the
\* current viewport of its page.
C17_ViewportPositionsCurrent ==
    /\ \A p \in DOMAIN grouped : \A k \in 1..Len(grouped[p]) :
           renderHighlightLayers(Viewer, grouped)[p][k].position =
               scaledPositionToViewport(Viewer, grouped[p][k].position)
    /\ viewportPosition # Null =>
           LET current == scaledPositionToViewport(Viewer, currentHighlight.position)
           IN  /\ viewportPosition.boundingRect = current.boundingRect
               /\ Len(viewportPosition.rects) = Len(current.rects)
               /\ \A k \in 1..Len(current.rects) :
                      viewportPosition.rects[k] = current.rects[k]

----------------------------------------------------------------------------
\* Unusable selections (specification SpecHighlighter)

\* the selectionchange met no usable selection: nothing selected, a range
\* outside the container, a range that touches no page or has no client rect
SelectionUnusable ==
    /\ ev.type = "selectionchange"
    /\ \/ ev.selection.isCollapsed
       \/ ~ev.selection.range.inContainer
       \/ ev.selection.range.pages = << >>
       \/ ev.selection.range.clientRects = << >>

\* the mouseup met a drag whose rectangle is smaller than one pixel
DragUnusable == UpWhileDragging /\ ~MeetsMinimumSize(ReleaseRect)

\* C29: an extraction that meets no usable selection (nothing selected, a
\* range outside the container, no pages, no client rects, a drag of less
\* than one pixel) is discarded: the step emits no selection and leaves the
\* current highlight, its viewport position and the ghost highlight as they
\* were.
C29_UnusableSelectionDiscarded ==
    [][ (SelectionUnusable' \/ DragUnusable') =>
            /\ currentHighlight' = currentHighlight
            /\ viewportPosition' = viewportPosition
            /\ ghostHighlight' = ghostHighlight
            /\ (DragUnusable' => emitted' = << >>)
            /\ (SelectionUnusable' => emitted' = emitted) ]_vars

C29_EmptyDragOverTextDraft ==
    /\ DragUnusable
    /\ ReleaseInside
    /\ ReleaseRect.width = 0
    /\ emitted = << >>
    /\ currentHighlight # Null
    /\ currentHighlight.type = "text"
    /\ viewportPosition # Null

----------------------------------------------------------------------------
\* The bounding rect of a text draft (specification SpecHighlighter)

\* the draft of a text selection is current
TextDraftCurrent ==
    /\ currentHighlight # Null
    /\ currentHighlight.type = "text"
    /\ viewportPosition # Null

\* b is the least rectangle that holds every rect of rs
TightUnion(b, rs) ==
    /\ rs # << >>
    /\ \A k \in 1..Len(rs) :
           /\ b.left <= rs[k].left
           /\ b.top <= rs[k].top
           /\ rs[k].left + rs[k].width <= b.left + b.width
           /\ rs[k].top + rs[k].height <= b.top + b.height
    /\ \E k \in 1..Len(rs) : b.left = rs[k].left
    /\ \E k \in 1..Len(rs) : b.top = rs[k].top
    /\ \E k \in 1..Len(rs) : b.left + b.width = rs[k].left + rs[k].width
    /\ \E k \in 1..Len(rs) : b.top + b.height = rs[k].top + rs[k].height

\* the same of stored corners
TightUnionScaled(b, rs) ==
    /\ rs # << >>
    /\ \A k \in 1..Len(rs) :
           /\ b.x1 <= rs[k].x1
           /\ b.y1 <= rs[k].y1
           /\ rs[k].x2 <= b.x2
           /\ rs[k].y2 <= b.y2
    /\ \E k \in 1..Len(rs) : b.x1 = rs[k].x1
    /\ \E k \in 1..Len(rs) : b.y1 = rs[k].y1
    /\ \E k \in 1..Len(rs) : b.x2 = rs[k].x2
    /\ \E k \in 1..Len(rs) : b.y2 = rs[k].y2

\* C30: the boundingRect of every text draft is the tight union of its
\* rects, in the viewport position and in the stored position: it holds every
\* rect, its left/top are the least left/top and its right/bottom the
\* greatest right/bottom of the rects; the union of one rect, and of a rect
\* given twice, is that rect.
C30_BoundingRectIsTightUnion ==
    TextDraftCurrent =>
        LET rs == viewportPosition.rects
            stored == currentHighlight.position
        IN  /\ TightUnion(viewportPosition.boundingRect, rs)
            /\ TightUnionScaled(stored.boundingRect, stored.rects)
            /\ (\A k \in 1..Len(rs) : rs[k] = rs[1]) =>
                   /\ viewportPosition.boundingRect = rs[1]
                   /\ stored.boundingRect = stored.rects[1]

C30_UnionOfOneLineTwice ==
    /\ TextDraftCurrent
    /\ Len(viewportPosition.rects) = 2
    /\ viewportPosition.rects[1] = viewportPosition.rects[2]
    /\ viewportPosition.boundingRect = viewportPosition.rects[1]
    /\ viewportPosition.boundingRect.width > 0

----------------------------------------------------------------------------
\* The visibility the area selection reports (specification Spec)

\* C31: the value last reported through onChange is true exactly when a
\* rectangle is displayed (anchor and current point both recorded): true
\* while Locked and while Dragging after a move, false while Idle and while
\* Dragging before any move.
C31_VisibilityReported ==
    /\ mouseSelectionInProgress <=> (startCoords # Null /\ endCoords # Null)
    /\ Phase = "Locked" => mouseSelectionInProgress
    /\ Phase = "Idle" => ~mouseSelectionInProgress
    /\ Phase = "Dragging" => (mouseSelectionInProgress <=> endCoords # Null)

C31_ReportedAfterFirstMove ==
    /\ ev.type = "mousemove"
    /\ ev.phase = "Dragging"
    /\ Phase = "Dragging"
    /\ endCoords # Null
    /\ mouseSelectionInProgress

----------------------------------------------------------------------------
\* Properties of the document loader (specification SpecLoader)

\* C32: when the loader unmounts or its url changes, destroy has been called
\* on the document that was loaded at that moment.
C32_LoadedDocumentDestroyed ==
    (loader.operation.kind \in {"unmount", "url"}
         /\ loader.operation.pdfDocument # Null) =>
        loader.operation.pdfDocument \in loader.destroyed

\* the load of the current url has failed
CurrentLoadFailed == loader.mounted /\ loader.load \in loader.failed

\* C33: once the load of the current url has failed the loader is in its
\* error state: the error is recorded, onError has been called with it and
\* the errorMessage element is rendered, never the children.
C33_FailedLoadShowsError ==
    CurrentLoadFailed =>
        /\ loader.error # Null
        /\ loader.onErrorCalls > 0
        /\ loader.rendered.element = "errorMessage"

\* C39: whenever the loader renders its child, the load of the current url
\* has completed and the pdfDocument handed to the child is its document.
C39_ChildHasLoadedDocument ==
    (loader.mounted /\ loader.rendered.element = "children") =>
        /\ loader.rendered.pdfDocument # Null
        /\ loader.rendered.pdfDocument.load = loader.load
        /\ loader.rendered.pdfDocument.url = loader.url

\* C40: an event of a load that a url change has superseded writes nothing,
\* and the document the loader holds is never that of a superseded load.
C40_SupersededLoadIgnored ==
    loader.mounted =>
        /\ (loader.operation.kind \in {"progress", "resolve"}
                /\ loader.operation.load < loader.load) => ~loader.operation.wrote
        /\ loader.pdfDocument # Null => loader.pdfDocument.load = loader.load

----------------------------------------------------------------------------
\* Properties of the cancel events (specification SpecTimers)

\* the step delivers a key or a press and fires no timer
KeyOrPressStep ==
    /\ timers' = timers
    /\ ev'.type \in {"keydown", "mousedown"}

\* the three state cells of the Highlighter a cancel clears
HighlightCells == <<ghostHighlight, viewportPosition, currentHighlight>>

\* C34: an Escape key-down, or a pointerDown whose target is outside the
\* popup, leaves the ghost highlight, the viewport position and the current
\* highlight all cleared; any other key-down, or a pointerDown whose target
\* is inside the popup, leaves the three as they were.
C34_CancelClearsTogether ==
    [][ KeyOrPressStep =>
            /\ (ev'.type = "keydown" /\ ev'.code = "Escape") =>
                   HighlightCells' = <<Null, Null, Null>>
            /\ (ev'.type = "keydown" /\ ev'.code # "Escape") =>
                   HighlightCells' = HighlightCells
            /\ (ev'.type = "mousedown" /\ ~TargetInfo[ev'.target].popup) =>
                   HighlightCells' = <<Null, Null, Null>>
            /\ (ev'.type = "mousedown" /\ TargetInfo[ev'.target].popup) =>
                   HighlightCells' = HighlightCells ]_vars

\* C34 (amended): an Escape key-down, or a pointerDown whose target is an HTML
\* element outside the popup, leaves the ghost highlight, the viewport
\* position and the current highlight all cleared; any other key-down, a
\* pointerDown inside the popup and a pointerDown whose target is no HTML
\* element leave the three as they were.
C34_CancelClearsOnHtmlTarget ==
    [][ KeyOrPressStep =>
            LET outside == /\ ev'.type = "mousedown"
                           /\ TargetInfo[ev'.target].html
                           /\ ~TargetInfo[ev'.target].popup
                escape == ev'.type = "keydown" /\ ev'.code = "Escape"
            IN  /\ (escape \/ outside) => HighlightCells' = <<Null, Null, Null>>
                /\ ~(escape \/ outside) => HighlightCells' = HighlightCells ]_vars

C34_PressInsidePopupKeepsHighlight ==
    /\ ev.type = "mousedown"
    /\ TargetInfo[ev.target].popup
    /\ currentHighlight # Null
    /\ viewportPosition # Null
    /\ timers.hover = Null
    /\ timers.debounce = Null

----------------------------------------------------------------------------
\* Properties of the hover (specification SpecTimers)

\* a hover may replace the current highlight: no text selection in progress,
\* no ghost highlight, no area-selection rectangle on display
HoverAllowed ==
    /\ selectionIsCollapsed
    /\ ghostHighlight = Null
    /\ ~mouseSelectionInProgress

\* the id of the current highlight, NoId when there is none
CurrentId == IF currentHighlight = Null THEN NoId ELSE currentHighlight.id

\* the step makes the hovered highlight the current one
HoverReplaces ==
    /\ timers.hover # Null
    /\ timers'.hover = Null
    /\ currentHighlight' = timers.hover.viewportHighlight

\* C35: the hovered highlight becomes the current highlight only when no text
\* selection is in progress, no ghost highlight is set, no area-selection
\* rectangle is visible and its id differs from the current highlight's id;
\* a mouseover met by any other state leaves the ghost highlight, the
\* viewport position and the current highlight unchanged.
C35_HoverReplacesOnlyWhenIdle ==
    [][ /\ HoverReplaces =>
               /\ HoverAllowed
               /\ timers.hover.viewportHighlight.id # CurrentId
        /\ (ev'.type = "mouseover" /\ timers' = timers) =>
               HighlightCells' = HighlightCells ]_vars

----------------------------------------------------------------------------
\* Properties of the popup state (specification SpecTimers)

\* C36: the viewport position of the popup is set if and only if a current
\* highlight is set, and a ghost highlight is set only while a current
\* highlight is set.
C36_PopupStateConsistent ==
    /\ viewportPosition # Null <=> currentHighlight # Null
    /\ ghostHighlight # Null => currentHighlight # Null

C36_GhostShownOverCurrent ==
    /\ ev.type = "onShow"
    /\ ghostHighlight # Null
    /\ ghostHighlight = currentHighlight
    /\ viewportPosition # Null

\* the position has the stored corners of scaled space in its bounding rect
\* and in every rect
InScaledSpace(position) ==
    /\ {"x1", "y1", "x2", "y2"} \subseteq DOMAIN position.boundingRect
    /\ \A k \in 1..Len(position.rects) :
           {"x1", "y1", "x2", "y2"} \subseteq DOMAIN position.rects[k]

\* C37: the ghost highlight handed to grouping and rendering carries a
\* position in scaled space, whether it was made of a text selection or of a
\* hovered highlight, and so does its copy in the grouping.
C37_GhostInScaledSpace ==
    ghostHighlight # Null =>
        /\ InScaledSpace(ghostHighlight.position)
        /\ \A p \in DOMAIN grouped : \A k \in 1..Len(grouped[p]) :
               InScaledSpace(grouped[p][k].position)

----------------------------------------------------------------------------
\* Properties of the scrolled-to marker (specification SpecPages)

\* C38: after scrollTo(h) the scrolled-to marker equals h.id, and exactly the
\* highlights whose id is h.id get the scrolled-to colour.
C38_MarkerIsScrolledToId ==
    pageViews.operation = "scrollTo" =>
        /\ scrollId = pageViews.argument.id
        /\ \A k \in 1..Len(highlights) :
               (backgroundColor(scrollId, highlights[k].id)
                    = "layerScrolledToBackgroundColor")
               <=> highlights[k].id = pageViews.argument.id

====
